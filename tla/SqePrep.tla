------------------------------- MODULE SqePrep ------------------------------
(***************************************************************************)
(* One slot of the SQE array through any number of requests: get_sqe       *)
(* resets some fields and leaves the others as the last request in the     *)
(* slot had them, a prep_* helper writes its own, and the application sets *)
(* user_data, flags and what else it wants before the kernel reads all of  *)
(* it.  Nobody clears the slot.                                            *)
(***************************************************************************)
EXTENDS SqeHelpers, Naturals

CONSTANT Helpers   \* the prep_* helpers, each with its args and its writes

VARIABLES
  sqe,       \* cell -> names of the values in it, {} for zero
  call,      \* the helper last applied
  said,      \* fields the application set by itself, still in force
  stage      \* "free", "got" (get_sqe returned it) or "prepared"

slotVars == <<sqe, call, said, stage>>

Written(cell, how, v) ==
  (IF how = "|" THEN cell ELSE {}) \cup (IF v = "0" THEN {} ELSE {v})

Write(s, w) ==
  [c \in Cells |-> IF c \in Layout[w[2]] THEN Written(s[c], w[1], w[3]) ELSE s[c]]

Apply(s, writes) ==
  LET after[n \in 0 .. Len(writes)] ==
        IF n = 0 THEN s ELSE Write(after[n - 1], writes[n])
  IN after[Len(writes)]

Blank == [c \in Cells |-> {}]

Reset == {"flags", "ioprio", "rw_flags", "buf_index", "personality",
          "file_index", "addr3", "__pad2"}

CellsOf(fields) == UNION {Layout[f] : f \in fields}

ResetFields(fields) == [c \in Cells |-> IF c \in CellsOf(fields) THEN {} ELSE sqe[c]]

NoIoprio == ResetFields(Reset \ {"ioprio"})
NoPad2   == ResetFields(Reset \ {"__pad2"})
InitSqe  == ResetFields(Reset)

-----------------------------------------------------------------------------
(* What init_sqe and the helpers owe each other.                           *)

Touched(k)  == CellsOf({k.writes[i][2] : i \in DOMAIN k.writes})
Assigned(k) == {c \in Cells : \E i \in DOMAIN k.writes :
                  k.writes[i][1] = "=" /\ c \in Layout[k.writes[i][2]]}

\* The flags a helper assigns, instead of adding to them: those that belong
\* to the operation, and the zc_flags its caller passes.
Replaced(k) ==
  (IF {"BUFFER_SELECT", "FIXED_FILE"} \cap k.args # {} THEN {"flags"} ELSE {})
  \cup (IF "zc_flags" \in k.args THEN {"ioprio"} ELSE {})

\* A helper assigns every cell init_sqe leaves alone, is silent on user_data
\* and adds to the flags unless it is one of the few.  In a slot of zeroes everything it is given ends up whole in
\* the fields it was written to, and nothing else does.
ASSUME HelpersAssumption ==
  \A k \in Helpers :
    /\ k.writes \in Seq({"=", "|"} \X (DOMAIN Layout) \X STRING)
    /\ Cells \ {"user_data"} \subseteq CellsOf(Reset) \cup Assigned(k)
    /\ "user_data" \notin Touched(k)
    /\ Assigned(k) \cap {"flags", "ioprio"} \subseteq Replaced(k)
    /\ \A a \in k.args : \E i \in DOMAIN k.writes : k.writes[i][3] = a
    /\ \A i \in DOMAIN k.writes : k.writes[i][3] \in k.args =>
         \A c \in Layout[k.writes[i][2]] : k.writes[i][3] \in Apply(Blank, k.writes)[c]
    /\ \A c \in Cells : Apply(Blank, k.writes)[c] \subseteq k.args \cup {"-1"}
    /\ "old" \notin k.args

-----------------------------------------------------------------------------
\* The array is fresh memory of the kernel.
SlotInit ==
  /\ sqe = Blank
  /\ call \in Helpers
  /\ said = {}
  /\ stage = "free"

GetSqe ==
  /\ stage = "free"
  /\ sqe' = InitSqe
  /\ said' = {} /\ stage' = "got"
  /\ UNCHANGED call

PrepIn(slot) ==
  /\ stage = "got"
  /\ \E k \in Helpers :
       /\ call' = k
       /\ sqe' = Apply(slot, k.writes)
       /\ said' = said \ Replaced(k)
  /\ stage' = "prepared"

PrepZeroed == PrepIn(Blank)
Prep       == PrepIn(sqe)

\* user_data may be set before or after the helper, and flags added to those
\* that are there; other fields the application sets where the helper left
\* them alone.
SetUserData ==
  /\ stage # "free" /\ "user_data" \notin said
  /\ sqe' = Apply(sqe, Set("user_data", "mine"))
  /\ said' = said \cup {"user_data"}
  /\ UNCHANGED <<call, stage>>

AddFlags ==
  /\ stage # "free"
  /\ \E f \in {"flags", "ioprio"} \ said :
       /\ sqe' = Apply(sqe, Or(f, "mine"))
       /\ said' = said \cup {f}
  /\ UNCHANGED <<call, stage>>

SetField ==
  /\ stage = "prepared"
  /\ \E f \in {"personality", "buf_group", "file_index", "cmd"} \ said :
       /\ Layout[f] \cap Touched(call) = {}
       /\ sqe' = Apply(sqe, Set(f, "mine"))
       /\ said' = said \cup {f}
  /\ UNCHANGED <<call, stage>>

\* The kernel has read the request; its values stay in the slot.
Consume ==
  /\ stage = "prepared"
  /\ sqe' = [c \in Cells |-> IF sqe[c] = {} THEN {} ELSE {"old"}]
  /\ stage' = "free"
  /\ UNCHANGED <<call, said>>

SlotNext == GetSqe \/ Prep \/ SetUserData \/ AddFlags \/ SetField \/ Consume

SlotSpec == SlotInit /\ [][SlotNext]_slotVars

-----------------------------------------------------------------------------
Values == {"-1", "mine", "old"} \cup UNION {k.args : k \in Helpers}

\* A zero is never stored as a name, a cell never mixes a request with the
\* one before it, and a slot the kernel is done with names no argument.
SlotTypeOK ==
  /\ call \in Helpers
  /\ stage \in {"free", "got", "prepared"}
  /\ said \subseteq {"user_data", "flags", "ioprio", "personality",
                     "buf_group", "file_index", "cmd"}
  /\ sqe \in [Cells -> SUBSET Values]
  /\ \A c \in Cells : "old" \in sqe[c] => sqe[c] = {"old"}

\* What the kernel reads was said for this request: no cell but user_data
\* keeps anything of the request that used the slot before (init_sqe resets
\* exactly what some helper may leave unwritten), and no helper leaves in it
\* a value of the helper it is built from.
NothingInherited ==
  stage = "prepared" =>
    \A c \in Cells \ {"user_data"} : sqe[c] \subseteq call.args \cup {"-1", "mine"}

\* Everything said reaches the kernel: every argument and constant of the
\* helper is in the whole of each field it was written to (no later write
\* through an overlapping field, no assignment after a |= destroys it), and
\* so is what the application set, before the helper or after it: only the
\* helpers of Replaced may take back flags set before.
AllSaid ==
  stage = "prepared" =>
    /\ \A a \in call.args : \E i \in DOMAIN call.writes : call.writes[i][3] = a
    /\ \A i \in DOMAIN call.writes : call.writes[i][3] \in call.args =>
         \A c \in Layout[call.writes[i][2]] : call.writes[i][3] \in sqe[c]
    /\ \A f \in said : \A c \in Layout[f] : "mine" \in sqe[c]
=============================================================================
