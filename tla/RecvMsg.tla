------------------------------ MODULE RecvMsg -------------------------------
(***************************************************************************)
(* The buffer of a multishot recvmsg, in bytes: a header, a field for the  *)
(* name and one for control messages as long as the msghdr of the request  *)
(* says, and the payload.  The kernel fills it; recvmsg_validate and the   *)
(* other recvmsg_* helpers find their way through it.                      *)
(***************************************************************************)
EXTENDS Integers, Sequences, SequencesExt, Selection

CONSTANTS
  Lengths,       \* bound: the lengths the program gives the two fields
  DataLengths,   \* bound: those of control data and payloads that arrive
  MaxMessages    \* bound: control messages of one datagram

ASSUME RecvAssumption ==
  Lengths \subseteq Nat /\ DataLengths \subseteq Nat /\ MaxMessages \in Nat

VARIABLES
  namelen, controllen,   \* of the msghdr
  written,               \* the control messages in the buffer
  used,                  \* the bytes they take, the header's controllen
  buf_len,               \* the result of the completion
  cmsg,                  \* the offset of the control message in hand, or -1
  visited,               \* those the program has had in hand
  phase

receiveVars == <<namelen, controllen, written, used, buf_len, cmsg, visited, phase>>

OutBytes  == 16    \* sizeof(io_uring_recvmsg_out)
CmsgBytes == 16    \* sizeof(cmsghdr)
LongBytes == 8     \* sizeof(long)

Padded(len) == ((len + LongBytes - 1) \div LongBytes) * LongBytes

Control == OutBytes + namelen
Payload == Control + controllen

ReceiveInit ==
  /\ namelen \in Lengths /\ controllen \in Lengths
  /\ written = << >> /\ used = 0
  /\ buf_len \in {-1, Payload - 1} \cup {Payload + n : n \in DataLengths}
  /\ cmsg = -1 /\ visited = << >>
  /\ phase = "receive"

-----------------------------------------------------------------------------
(* The kernel.                                                             *)

\* put_cmsg: one control message, cut off if the field is too short for it.
PutCmsg(data) ==
  /\ phase = "receive" /\ buf_len >= Payload
  /\ Len(written) < MaxMessages
  /\ controllen - used >= CmsgBytes
  /\ LET rest == controllen - used
         Within(n) == IF n < rest THEN n ELSE rest
     IN  /\ written' = Append(written, [at |-> used, len |-> Within(CmsgBytes + data)])
         /\ used' = used + Within(Padded(CmsgBytes + data))
  /\ UNCHANGED <<namelen, controllen, buf_len, cmsg, visited, phase>>

Complete ==
  /\ phase = "receive"
  /\ phase' = "completed"
  /\ UNCHANGED <<namelen, controllen, written, used, buf_len, cmsg, visited>>

-----------------------------------------------------------------------------
(* The helpers.                                                            *)

\* The length found at an offset.
LenAt(offset) == LET here == {c \in Range(written) : c.at = offset}
                 IN  IF here = {} THEN CmsgBytes
                                  ELSE (CHOOSE c \in here : TRUE).len

TooShort == buf_len < 0 \/ buf_len < controllen + namelen + OutBytes

Validate ==
  /\ phase = "completed"
  /\ phase' = IF TooShort THEN "rejected" ELSE "valid"
  /\ UNCHANGED <<namelen, controllen, written, used, buf_len, cmsg, visited>>

FirstHdr ==
  /\ phase = "valid"
  /\ IF used < CmsgBytes
     THEN phase' = "walked" /\ UNCHANGED <<cmsg, visited>>
     ELSE cmsg' = 0 /\ visited' = <<0>> /\ phase' = "walk"
  /\ UNCHANGED <<namelen, controllen, written, used, buf_len>>

\* Whether the header, and then the whole message, at this offset is inside.
Inside(next) == /\ next + CmsgBytes <= used
                /\ next + Padded(LenAt(next)) <= used

\* A header starts where the padding of the one before ends.
BareStep(len) == len
Step(len)     == Padded(len)

NextHdr ==
  /\ phase = "walk"
  /\ LET next == cmsg + Step(LenAt(cmsg))
     IN  IF LenAt(cmsg) >= CmsgBytes /\ Inside(next)
         THEN cmsg' = next /\ visited' = Append(visited, next) /\ UNCHANGED phase
         ELSE cmsg' = -1 /\ phase' = "walked" /\ UNCHANGED visited
  /\ UNCHANGED <<namelen, controllen, written, used, buf_len>>

PayloadLength == buf_len - Payload

ReceiveNext ==
  \/ \E n \in DataLengths : PutCmsg(n)
  \/ Complete \/ Validate \/ FirstHdr \/ NextHdr

ReceiveSpec == ReceiveInit /\ [][ReceiveNext]_receiveVars

-----------------------------------------------------------------------------
(* Properties.                                                             *)

Offsets == [i \in DOMAIN written |-> written[i].at]

\* Whether the padding of a message lies in the control field too, which
\* nothing but the first header is handed out without.
Whole(c) == c.at = 0 \/ c.at + Padded(c.len) <= used

\* The walk hands out control messages the kernel wrote and nothing else,
\* each once and in order, whole inside the control field; and it ends with
\* the last one, unless the field ends in that one's padding.  The first is
\* handed out in any case.  A buffer that passes recvmsg_validate has all
\* its fields inside.
WalkFindsAll ==
  /\ IsPrefix(visited, Offsets)
  /\ \A i \in DOMAIN visited : visited[i] + LenAt(visited[i]) <= controllen
  /\ phase = "walked" =>
       visited = Only(Offsets, {c.at : c \in {c \in Range(written) : Whole(c)}})
  /\ phase \in {"valid", "walk", "walked"} =>
       Control + used <= Payload /\ PayloadLength >= 0
=============================================================================
