----------------------------- MODULE SqeHelpers -----------------------------
(***************************************************************************)
(* The prep_* helpers: which fields of an io_uring_sqe each of them        *)
(* writes, in which order, and with which of its arguments.                *)
(*                                                                         *)
(* Most fields of an SQE lie over others.  The bytes are therefore cut     *)
(* into cells, the pieces no field divides, and a field is a set of cells. *)
(* A value is a name: that of the argument or constant it came from, or    *)
(* "0".  A write is <<how, field, value>>; a helper is a sequence of them. *)
(***************************************************************************)
EXTENDS Sequences

Single == {"opcode", "flags", "ioprio", "fd", "len", "user_data", "personality"}

\* The names of bytes 28 to 31.
FlagWord ==
  {"rw_flags", "fsync_flags", "poll32_events", "sync_range_flags", "msg_flags",
   "timeout_flags", "accept_flags", "cancel_flags", "open_flags", "statx_flags",
   "fadvise_advice", "splice_flags", "rename_flags", "unlink_flags",
   "hardlink_flags", "xattr_flags", "msg_ring_flags", "waitid_flags",
   "futex_flags", "install_fd_flags", "pipe_flags"}

\* The cells that several fields share, with those fields.
Shared ==
  [byte8  |-> {"off", "addr2", "cmd_op"},
   byte12 |-> {"off", "addr2", "__pad1"},
   byte16 |-> {"addr", "splice_off_in", "level"},
   byte20 |-> {"addr", "splice_off_in", "optname"},
   word28 |-> FlagWord,
   half40 |-> {"buf_index", "buf_group"},
   byte44 |-> {"file_index", "splice_fd_in", "optlen", "addr_len"},
   byte46 |-> {"file_index", "splice_fd_in", "optlen"},
   byte48 |-> {"addr3", "optval", "cmd"},
   byte56 |-> {"__pad2", "cmd"}]

Cells  == Single \cup DOMAIN Shared
Fields == Single \cup UNION {Shared[c] : c \in DOMAIN Shared}

Layout == [f \in Fields |-> IF f \in Single THEN {f}
                            ELSE {c \in DOMAIN Shared : f \in Shared[c]}]

Set(f, v) == << <<"=", f, v>> >>
Or(f, v)  == << <<"|", f, v>> >>

prep_rw(op, fd, addr, len, off) ==
  Set("opcode", op) \o Set("fd", fd) \o Set("off", off)
  \o Set("addr", addr) \o Set("len", len)

\* The helpers called with a name for the index, or with the one that lets
\* the kernel choose.
fixed_file(v) == Set("file_index", v)

\* args: what the helper is given and the constants it stands for, all of
\* which the kernel has to find in the SQE.
Call(args, writes) == [args |-> args, writes |-> writes]

-----------------------------------------------------------------------------
prep_openat(dfd) ==
  prep_rw("OPENAT", dfd, "path", "mode", "0") \o Set("open_flags", "flags")
prep_openat2 == prep_rw("OPENAT2", "dfd", "path", "sizeof", "how")
prep_close(fd) == prep_rw("CLOSE", fd, "0", "0", "0")

OpenCalls ==
  {Call({"NOP"}, prep_rw("NOP", "-1", "0", "0", "0")),
   Call({"NOP128"}, prep_rw("NOP128", "-1", "0", "0", "0")),
   Call({"OPENAT2", "dfd", "path", "sizeof", "how"}, prep_openat2),
   Call({"OPENAT2", "dfd", "path", "sizeof", "how", "index"},
        prep_openat2 \o fixed_file("index")),
   Call({"CLOSE", "fd"}, prep_close("fd")),
   Call({"CLOSE", "index"}, prep_close("0") \o fixed_file("index"))}
  \cup UNION {
   {Call({"OPENAT", dfd, "path", "flags", "mode"}, prep_openat(dfd)),
    Call({"OPENAT", dfd, "path", "flags", "mode", "index"},
         prep_openat(dfd) \o fixed_file("index"))} : dfd \in {"dfd", "CWD"}}

prep_iov(op)    == prep_rw(op, "fd", "iovecs", "nr", "offset")
prep_iov2(op)   == prep_iov(op) \o Set("rw_flags", "flags")
prep_buf(op)    == prep_rw(op, "fd", "buf", "nbytes", "offset")
buf_index       == Set("buf_index", "buf_index")
read_multishot  ==
  prep_rw("READ_MULTISHOT", "fd", "0", "nbytes", "offset")
  \o Set("buf_group", "buf_group") \o Set("flags", "BUFFER_SELECT")

\* Readings and writings differ in the operation only.
ReadWriteCalls ==
  {Call({"READ_MULTISHOT", "fd", "nbytes", "offset", "buf_group", "BUFFER_SELECT"},
        read_multishot)}
  \cup UNION {
   {Call({op, "fd", "buf", "nbytes", "offset"}, prep_buf(op)),
    Call({op \o "V", "fd", "iovecs", "nr", "offset"}, prep_iov(op \o "V")),
    Call({op \o "V", "fd", "iovecs", "nr", "offset", "flags"}, prep_iov2(op \o "V")),
    Call({op \o "_FIXED", "fd", "buf", "nbytes", "offset", "buf_index"},
         prep_buf(op \o "_FIXED") \o buf_index),
    Call({op \o "V_FIXED", "fd", "iovecs", "nr", "offset", "flags", "buf_index"},
         prep_iov2(op \o "V") \o Set("opcode", op \o "V_FIXED") \o buf_index)}
   : op \in {"READ", "WRITE"}}

fadvise == Set("fadvise_advice", "advice")

SyncCalls ==
  {Call({"FSYNC", "fd", "flags"},
        prep_rw("FSYNC", "fd", "0", "0", "0") \o Set("fsync_flags", "flags")),
   Call({"SYNC_FILE_RANGE", "fd", "len", "offset", "flags"},
        prep_rw("SYNC_FILE_RANGE", "fd", "0", "len", "offset")
        \o Set("sync_range_flags", "flags")),
   Call({"FALLOCATE", "fd", "mode", "offset", "len"},
        prep_rw("FALLOCATE", "fd", "0", "mode", "offset") \o Set("addr", "len")),
   Call({"FTRUNCATE", "fd", "len"}, prep_rw("FTRUNCATE", "fd", "0", "0", "len")),
   Call({"STATX", "dfd", "path", "flags", "mask", "buf"},
        prep_rw("STATX", "dfd", "path", "mask", "buf") \o Set("statx_flags", "flags")),
   Call({"FADVISE", "fd", "offset", "len", "advice"},
        prep_rw("FADVISE", "fd", "0", "len", "offset") \o fadvise),
   Call({"FADVISE", "fd", "offset", "len", "advice"},
        prep_rw("FADVISE", "fd", "0", "0", "offset") \o Set("addr", "len") \o fadvise),
   Call({"MADVISE", "addr", "len", "advice"},
        prep_rw("MADVISE", "-1", "addr", "len", "0") \o fadvise),
   Call({"MADVISE", "addr", "len", "advice"},
        prep_rw("MADVISE", "-1", "addr", "0", "len") \o fadvise)}

PathCalls ==
  UNION {
   {Call({"LINKAT", at.old, "oldpath", at.new, "newpath", "flags"},
         prep_rw("LINKAT", at.old, "oldpath", at.new, "newpath")
         \o Set("hardlink_flags", "flags")),
    Call({"SYMLINKAT", at.new, "target", "linkpath"},
         prep_rw("SYMLINKAT", at.new, "target", "0", "linkpath")),
    Call({"UNLINKAT", at.new, "path", "flags"},
         prep_rw("UNLINKAT", at.new, "path", "0", "0") \o Set("unlink_flags", "flags")),
    Call({"MKDIRAT", at.new, "path", "mode"},
         prep_rw("MKDIRAT", at.new, "path", "mode", "0"))}
   : at \in {[old |-> "olddfd", new |-> "newdfd"], [old |-> "CWD", new |-> "CWD"]}}
  \cup
  {Call({"RENAMEAT", "olddfd", "oldpath", "newdfd", "newpath", "flags"},
        prep_rw("RENAMEAT", "olddfd", "oldpath", "newdfd", "newpath")
        \o Set("rename_flags", "flags")),
   Call({"RENAMEAT", "CWD", "oldpath", "newpath"},
        prep_rw("RENAMEAT", "CWD", "oldpath", "CWD", "newpath")
        \o Set("rename_flags", "0"))}
  \cup
  {Call({"SETXATTR", "name", "value", "path", "flags", "len"},
        prep_rw("SETXATTR", "0", "name", "len", "value")
        \o Set("addr3", "path") \o Set("xattr_flags", "flags")),
   Call({"GETXATTR", "name", "value", "path", "len"},
        prep_rw("GETXATTR", "0", "name", "len", "value")
        \o Set("addr3", "path") \o Set("xattr_flags", "0")),
   Call({"FGETXATTR", "fd", "name", "value", "len"},
        prep_rw("FGETXATTR", "fd", "name", "len", "value") \o Set("xattr_flags", "0")),
   Call({"FSETXATTR", "fd", "name", "value", "flags", "len"},
        prep_rw("FSETXATTR", "fd", "name", "len", "value")
        \o Set("xattr_flags", "flags"))}

-----------------------------------------------------------------------------
prep_socket ==
  prep_rw("SOCKET", "domain", "0", "protocol", "type") \o Set("rw_flags", "flags")
prep_accept ==
  prep_rw("ACCEPT", "fd", "addr", "0", "addrlen") \o Set("accept_flags", "flags")
accept_multishot == prep_accept \o Or("ioprio", "ACCEPT_MULTISHOT")

AddressCalls ==
  LET socket == {"SOCKET", "domain", "type", "protocol", "flags"}
      accept == {"ACCEPT", "fd", "addr", "addrlen", "flags"}
  IN {Call(socket, prep_socket),
      Call({"BIND", "fd", "addr", "addrlen"}, prep_rw("BIND", "fd", "addr", "0", "addrlen")),
      Call({"LISTEN", "fd", "backlog"}, prep_rw("LISTEN", "fd", "0", "backlog", "0")),
      Call({"CONNECT", "fd", "addr", "addrlen"},
           prep_rw("CONNECT", "fd", "addr", "0", "addrlen")),
      Call({"SHUTDOWN", "fd", "how"}, prep_rw("SHUTDOWN", "fd", "0", "how", "0")),
      Call(accept, prep_accept),
      Call(accept \cup {"index"}, prep_accept \o fixed_file("index")),
      Call(accept \cup {"ACCEPT_MULTISHOT"}, accept_multishot),
      Call(accept \cup {"ACCEPT_MULTISHOT", "ALLOC"},
           accept_multishot \o fixed_file("ALLOC"))}
     \cup {Call(socket \cup {i}, prep_socket \o fixed_file(i)) : i \in {"index", "ALLOC"}}

prep_message(op, buf) == prep_rw(op, "fd", buf, "len", "0") \o Set("msg_flags", "flags")
prep_msghdr(op)       == prep_rw(op, "fd", "msg", "1", "0") \o Set("msg_flags", "flags")
fixed_buf             == Or("ioprio", "FIXED_BUF") \o buf_index
prep_send_set_addr    == Set("addr2", "dest_addr") \o Set("addr_len", "addr_len")

\* The flags of the caller first: the bit of the helper is added to them.
prep_send_zc    == prep_message("SEND_ZC", "buf") \o Set("ioprio", "zc_flags")
SendZcFixed     == prep_send_zc \o fixed_buf
prep_sendmsg_zc == prep_msghdr("SENDMSG") \o Set("opcode", "SENDMSG_ZC")

MessageCalls ==
  LET message(op) == {op, "fd", "len", "flags"}
      header(op)  == {op, "fd", "msg", "1", "flags"}
  IN UNION {
      {Call(message(op) \cup {"buf"}, prep_message(op, "buf")),
       Call(message(op) \cup {"BUNDLE"}, prep_message(op, "0") \o Or("ioprio", "BUNDLE")),
       Call(header(op \o "MSG"), prep_msghdr(op \o "MSG"))} : op \in {"SEND", "RECV"}}
     \cup
     {Call(message("SEND") \cup {"buf", "dest_addr", "addr_len"},
           prep_message("SEND", "buf") \o prep_send_set_addr),
      Call(message("SEND_ZC") \cup {"buf", "zc_flags"}, prep_send_zc),
      Call(message("SEND_ZC") \cup {"buf", "zc_flags", "FIXED_BUF", "buf_index"},
           SendZcFixed),
      Call(header("SENDMSG_ZC"), prep_sendmsg_zc),
      Call(header("SENDMSG_ZC") \cup {"FIXED_BUF", "buf_index"},
           prep_sendmsg_zc \o fixed_buf),
      Call(message("RECV") \cup {"buf", "RECV_MULTISHOT"},
           prep_message("RECV", "buf") \o Or("ioprio", "RECV_MULTISHOT")),
      Call(header("RECVMSG") \cup {"RECV_MULTISHOT"},
           prep_msghdr("RECVMSG") \o Or("ioprio", "RECV_MULTISHOT"))}

prep_poll_add ==
  prep_rw("POLL_ADD", "fd", "0", "0", "0") \o Set("poll32_events", "poll_mask")
timeout_flags == Set("timeout_flags", "flags")
cancel_flags  == Set("cancel_flags", "flags")

EventCalls ==
  {Call({"POLL_ADD", "fd", "poll_mask"}, prep_poll_add),
   Call({"POLL_ADD", "fd", "poll_mask", "ADD_MULTI"},
        prep_poll_add \o Set("len", "ADD_MULTI")),
   Call({"POLL_REMOVE", "old_user_data", "new_user_data", "poll_mask", "flags"},
        prep_rw("POLL_REMOVE", "-1", "0", "flags", "new_user_data")
        \o Set("addr", "old_user_data") \o Set("poll32_events", "poll_mask")),
   Call({"POLL_REMOVE", "target"},
        prep_rw("POLL_REMOVE", "-1", "0", "0", "0") \o Set("addr", "target")),
   Call({"EPOLL_CTL", "epfd", "fd", "op", "ev"},
        prep_rw("EPOLL_CTL", "epfd", "ev", "op", "fd")),
   Call({"EPOLL_WAIT", "fd", "events", "maxevents", "flags"},
        prep_rw("EPOLL_WAIT", "fd", "events", "maxevents", "0")
        \o Set("rw_flags", "flags")),
   Call({"TIMEOUT", "ts", "count", "flags", "1"},
        prep_rw("TIMEOUT", "-1", "ts", "1", "count") \o timeout_flags),
   Call({"TIMEOUT_REMOVE", "ts", "target", "flags", "UPDATE"},
        prep_rw("TIMEOUT_REMOVE", "-1", "0", "0", "ts") \o Set("addr", "target")
        \o timeout_flags \o Or("timeout_flags", "UPDATE")),
   Call({"LINK_TIMEOUT", "ts", "flags", "1"},
        prep_rw("LINK_TIMEOUT", "-1", "ts", "1", "0") \o timeout_flags),
   Call({"TIMEOUT_REMOVE", "target", "flags"},
        prep_rw("TIMEOUT_REMOVE", "-1", "0", "0", "0") \o Set("addr", "target")
        \o timeout_flags),
   Call({"ASYNC_CANCEL", "target", "flags"},
        prep_rw("ASYNC_CANCEL", "-1", "0", "0", "0") \o Set("addr", "target")
        \o cancel_flags),
   Call({"ASYNC_CANCEL", "fd", "flags", "CANCEL_FD"},
        prep_rw("ASYNC_CANCEL", "fd", "0", "0", "0") \o cancel_flags
        \o Or("cancel_flags", "CANCEL_FD")),
   Call({"PROVIDE_BUFFERS", "nr", "addr", "len", "bgid", "bid"},
        prep_rw("PROVIDE_BUFFERS", "nr", "addr", "len", "bid") \o Set("buf_group", "bgid")),
   Call({"REMOVE_BUFFERS", "nr", "bgid"},
        prep_rw("REMOVE_BUFFERS", "nr", "0", "0", "0") \o Set("buf_group", "bgid"))}

-----------------------------------------------------------------------------
splice_in(off) ==
  Set("splice_off_in", off) \o Set("splice_fd_in", "fd_in") \o Set("splice_flags", "flags")
prep_pipe == prep_rw("PIPE", "0", "fds", "0", "0") \o Set("pipe_flags", "flags")
prep_futex(op) ==
  prep_rw(op, "futex_flags", "futex", "0", "val")
  \o Set("futex_flags", "flags") \o Set("addr3", "mask")
msg_ring_flags == Set("msg_ring_flags", "flags")
prep_msg_ring_fd(target) ==
  prep_rw("MSG_RING", "fd", "SEND_FD", "0", "data") \o Set("addr3", "source_fd")
  \o fixed_file(target) \o msg_ring_flags

PipeCalls ==
  {Call({"SPLICE", "fd_in", "off_in", "fd_out", "off_out", "nbytes", "flags"},
        prep_rw("SPLICE", "fd_out", "0", "nbytes", "off_out") \o splice_in("off_in")),
   Call({"TEE", "fd_in", "fd_out", "nbytes", "flags"},
        prep_rw("TEE", "fd_out", "0", "nbytes", "0") \o splice_in("0")),
   Call({"PIPE", "fds", "flags"}, prep_pipe),
   Call({"PIPE", "fds", "flags", "index"}, prep_pipe \o fixed_file("index")),
   Call({"FUTEX_WAITV", "futex", "nr_futex", "flags"},
        prep_rw("FUTEX_WAITV", "0", "futex", "nr_futex", "0")
        \o Set("futex_flags", "flags")),
   Call({"MSG_RING", "fd", "len", "data", "flags"},
        prep_rw("MSG_RING", "fd", "0", "len", "data") \o msg_ring_flags),
   Call({"MSG_RING", "fd", "len", "data", "flags", "FLAGS_PASS", "cqe_flags"},
        prep_rw("MSG_RING", "fd", "0", "len", "data")
        \o Set("msg_ring_flags", "FLAGS_PASS") \o Or("msg_ring_flags", "flags")
        \o Set("file_index", "cqe_flags"))}
  \cup
  {Call({"MSG_RING", "fd", "SEND_FD", "source_fd", target, "data", "flags"},
        prep_msg_ring_fd(target)) : target \in {"target_fd", "ALLOC"}}
  \cup
  {Call({op, "futex", "val", "mask", "futex_flags", "flags"}, prep_futex(op))
   : op \in {"FUTEX_WAKE", "FUTEX_WAIT"}}

prep_uring_cmd(op, cmd) ==
  Set("opcode", op) \o Set("fd", "fd") \o Set("cmd_op", cmd)
  \o Set("__pad1", "0") \o Set("addr", "0") \o Set("len", "0")

\* level and optname lie where prep_uring_cmd writes addr: they come after.
sock_option ==
  Set("optval", "optval") \o Set("optname", "optname")
  \o Set("optlen", "optlen") \o Set("level", "level")
prep_cmd_sock(cmd) == prep_uring_cmd("URING_CMD", cmd) \o sock_option

CommandCalls ==
  {Call({op, "cmd_op", "fd"}, prep_uring_cmd(op, "cmd_op"))
   : op \in {"URING_CMD", "URING_CMD128"}}
  \cup
  {Call({"URING_CMD", cmd, "fd", "level", "optname", "optval", "optlen"},
        prep_cmd_sock(cmd)) : cmd \in {"cmd_op", "SETSOCKOPT", "GETSOCKOPT"}}
  \cup
  {Call({"URING_CMD", "GETSOCKNAME", "fd", "addr", "addrlen", "peer"},
        prep_uring_cmd("URING_CMD", "GETSOCKNAME") \o Set("addr", "addr")
        \o Set("addr3", "addrlen") \o Set("optlen", "peer")),
   Call({"URING_CMD", "DISCARD", "fd", "offset", "nbytes"},
        prep_uring_cmd("URING_CMD", "DISCARD") \o Set("addr", "offset")
        \o Set("addr3", "nbytes")),
   Call({"WAITID", "idtype", "id", "infop", "options", "flags"},
        prep_rw("WAITID", "id", "0", "idtype", "0") \o Set("waitid_flags", "flags")
        \o Set("file_index", "options") \o Set("addr2", "infop")),
   Call({"FILES_UPDATE", "fds", "nr_fds", "offset"},
        prep_rw("FILES_UPDATE", "-1", "fds", "nr_fds", "offset")),
   Call({"FIXED_FD_INSTALL", "fd", "FIXED_FILE", "flags"},
        prep_rw("FIXED_FD_INSTALL", "fd", "0", "0", "0") \o Set("flags", "FIXED_FILE")
        \o Set("install_fd_flags", "flags"))}

Calls ==
  OpenCalls \cup ReadWriteCalls \cup SyncCalls \cup PathCalls \cup AddressCalls
  \cup MessageCalls \cup EventCalls \cup PipeCalls \cup CommandCalls
=============================================================================
