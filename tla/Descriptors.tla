----------------------------- MODULE Descriptors ----------------------------
(***************************************************************************)
(* The generated programs' I/O (runtime/parena_runtime.h): files read a    *)
(* line at a time through a table of buffers keyed by descriptor, plain    *)
(* sockets, and the one TLS session reached through tagged handles.  They  *)
(* meet in the process's descriptor table: the kernel hands out the lowest *)
(* free number, so whatever is closed here is reused there, and the buffer *)
(* table and the handles must notice.                                      *)
(*                                                                         *)
(* A file handle is linear in the source language (io.prn: !f): it is      *)
(* closed once.  A TLS handle is an I32 the program may keep and use after *)
(* its session is gone, which the runtime undertakes to refuse.            *)
(***************************************************************************)
EXTENDS Integers, Sequences, FiniteSetsExt, SequencesExt

CONSTANTS
  Fds,           \* the descriptors the process may have open, from 0 up
  SelectLimit,   \* FD_SETSIZE: descriptors from here on cannot be waited for
  Content,       \* what every file holds, Newline ending a line
  Newline,
  IoBufCap,      \* IO_BUF_CAP
  IoMaxHandles,  \* IO_MAX_HANDLES
  Generations,   \* TLS handle generations (the code: 2^14)
  MaxSessions    \* bound on the connections made

Bytes == UNION {Range(Content[f]) : f \in DOMAIN Content}

ASSUME DescriptorsAssumption ==
  /\ IsFiniteSet(Fds) /\ Fds = 0..Cardinality(Fds) - 1
  /\ Content \in Seq(Seq(Bytes)) /\ IoBufCap \in Nat \ {0}
  /\ IoMaxHandles \in Nat \ {0} /\ SelectLimit \in Nat
  /\ Generations \in Nat \ {0} /\ MaxSessions \in Nat /\ MaxSessions <= Generations

VARIABLES
  fds,      \* what every descriptor number stands for in the kernel
  bufs,     \* g_io_bufs: slot -> the descriptor it buffers and the bytes left in it
  files,    \* open file handles: descriptor -> the file and what was read from it
  plain,    \* plain sockets the program holds: descriptor -> its connection
  tls,      \* g_stream_tls: the live session
  handles,  \* TLS handles the program has been given, each with its connection
  sessions, \* connections made so far, and so the number of the next one
  gen,      \* g_stream_tls_gen
  touched   \* the connection the last stream call acted on, and the one it was for
vars == <<fds, bufs, files, plain, tls, handles, sessions, gen, touched>>
streams == <<plain, tls, handles, sessions, gen, touched>>

Free  == [kind |-> "free", id |-> 0, off |-> 0]
NoFile == [file |-> 0, got |-> <<>>]
NoSession == [active |-> FALSE, fd |-> -1, gen |-> -1]
Unused == [fd |-> -1, data |-> <<>>]
Nothing == [by |-> 0, on |-> 0]
Slots == 1..IoMaxHandles

FreeIn(table) == {d \in Fds : table[d].kind = "free"}
Lowest(table) == Min(FreeIn(table))
Close(table, d) == [table EXCEPT ![d] = Free]

TypeOK ==
  /\ fds \in [Fds -> [kind : {"free", "file", "sock"}, id : DOMAIN Content \cup 0..MaxSessions, off : Nat]]
  /\ bufs \in [Slots -> [fd : Fds \cup {-1}, data : Seq(Bytes)]]
  /\ files \in [Fds -> [file : 0..Len(Content), got : Seq(Bytes)]]
  /\ plain \in [Fds -> 0..MaxSessions]
  /\ tls \in [active : BOOLEAN, fd : Fds \cup {-1}, gen : -1..Generations - 1]
  /\ handles \subseteq [fd : Fds, gen : 0..Generations - 1, conn : 1..MaxSessions]
  /\ gen \in 0..Generations - 1 /\ sessions \in 0..MaxSessions

Init ==
  /\ fds = [d \in Fds |-> Free] /\ bufs = [s \in Slots |-> Unused]
  /\ files = [d \in Fds |-> NoFile] /\ plain = [d \in Fds |-> 0]
  /\ tls = NoSession /\ handles = {} /\ sessions = 0 /\ gen = 0 /\ touched = Nothing

(***************************************************************************)
(* Buffered files                                                          *)
(***************************************************************************)
\* io_buf_for: the slot of d, else the first free one, else none (0)
SlotOf(d) ==
  LET mine == {s \in Slots : bufs[s].fd = d}
      free == {s \in Slots : bufs[s].fd = -1}
  IN IF mine # {} THEN Min(mine) ELSE IF free # {} THEN Min(free) ELSE 0
Buffered(d) ==
  LET s == SlotOf(d) IN IF s # 0 /\ bufs[s].fd = d THEN bufs[s].data ELSE <<>>
Unread(d) == LET all == Content[fds[d].id] IN SubSeq(all, fds[d].off + 1, Len(all))

\* io_buf_release
Released(table, d) == [s \in Slots |-> IF table[s].fd = d THEN Unused ELSE table[s]]

FileOpen(f) ==
  /\ FreeIn(fds) # {}
  /\ LET d == Lowest(fds)
     IN /\ fds' = [fds EXCEPT ![d] = [kind |-> "file", id |-> f, off |-> 0]]
        /\ files' = [files EXCEPT ![d] = [file |-> f, got |-> <<>>]]
  /\ UNCHANGED <<bufs, streams>>

FileCloseKeepsBuffer(d) ==   \* mutant: the slot stays with the number
  /\ files[d].file # 0
  /\ bufs' = bufs /\ fds' = Close(fds, d)
  /\ files' = [files EXCEPT ![d] = NoFile]
  /\ UNCHANGED streams
\* raw_close
FileClose(d) ==
  /\ files[d].file # 0
  /\ bufs' = Released(bufs, d) /\ fds' = Close(fds, d)
  /\ files' = [files EXCEPT ![d] = NoFile]
  /\ UNCHANGED streams

\* the bytes a line takes out of `rest`, its newline included
LineLength(rest) ==
  LET ends == {i \in DOMAIN rest : rest[i] = Newline}
  IN IF ends = {} THEN Len(rest) ELSE Min(ends)
\* descriptor reads of IoBufCap bytes it takes to have k more
Reads(k) == Min({r \in 0..k : r * IoBufCap >= k})

\* io.prn read-line: raw_at_eof, and raw_read_line unless at the end.  With
\* no slot left the two read the descriptor a byte at a time (the peek of
\* raw_at_eof seeks back).
ReadLine(d) ==
  /\ files[d].file # 0
  /\ LET s == SlotOf(d)
         rest == Buffered(d) \o Unread(d)
         k == LineLength(rest)
         missing == IF k > Len(Buffered(d)) THEN k - Len(Buffered(d)) ELSE 0
         read == IF s = 0 THEN k ELSE Min({Len(Unread(d)), Reads(missing) * IoBufCap})
     IN /\ fds' = [fds EXCEPT ![d].off = @ + read]
        /\ bufs' = IF s = 0 THEN bufs
                   ELSE [bufs EXCEPT ![s] = [fd |-> d, data |->
                           SubSeq(Buffered(d) \o SubSeq(Unread(d), 1, read), k + 1,
                                  Len(Buffered(d)) + read)]]
        /\ files' = [files EXCEPT ![d].got = @ \o SubSeq(rest, 1, k)]
  /\ UNCHANGED streams

(***************************************************************************)
(* Streams                                                                 *)
(***************************************************************************)
\* stream_connect: every address that fails closes its socket, so a failed
\* call leaves the table as it was; a socket select cannot address is one of
\* those
CanConnect(table) == FreeIn(table) # {} /\ Lowest(table) < SelectLimit
Connected(table) == [table EXCEPT ![Lowest(table)] = [kind |-> "sock", id |-> sessions + 1, off |-> 0]]

Connect ==
  /\ sessions < MaxSessions /\ CanConnect(fds)
  /\ fds' = Connected(fds)
  /\ plain' = [plain EXCEPT ![Lowest(fds)] = sessions + 1]
  /\ sessions' = sessions + 1
  /\ UNCHANGED <<bufs, files, tls, handles, gen, touched>>

\* stream_tls_teardown of the live session, when there is one
TornDown == IF tls.active THEN Close(fds, tls.fd) ELSE fds

ConnectTlsBesideOld ==   \* mutant: forgets to tear the old one down
  /\ sessions < MaxSessions /\ CanConnect(fds)
  /\ LET d == Lowest(fds)
         g == (gen + 1) % Generations
     IN /\ fds' = Connected(fds)
        /\ tls' = [active |-> TRUE, fd |-> d, gen |-> g]
        /\ gen' = g
        /\ handles' = handles \cup {[fd |-> d, gen |-> g, conn |-> sessions + 1]}
  /\ sessions' = sessions + 1
  /\ UNCHANGED <<bufs, files, plain, touched>>
\* stream_connect_tls: a new session supersedes the old one
ConnectTls ==
  /\ sessions < MaxSessions /\ CanConnect(TornDown)
  /\ LET d == Lowest(TornDown)
         g == (gen + 1) % Generations
     IN /\ fds' = Connected(TornDown)
        /\ tls' = [active |-> TRUE, fd |-> d, gen |-> g]
        /\ gen' = g
        /\ handles' = handles \cup {[fd |-> d, gen |-> g, conn |-> sessions + 1]}
  /\ sessions' = sessions + 1
  /\ UNCHANGED <<bufs, files, plain, touched>>

\* ... without a CA bundle, without a connection, or with the socket open and
\* the handshake failed (the teardown of `fail:` closes it): no session is left
ConnectTlsFails ==
  /\ tls' = NoSession /\ fds' = TornDown
  /\ UNCHANGED <<bufs, files, plain, handles, sessions, gen, touched>>

\* stream_tls_owns
Owns(h) == tls.active /\ tls.fd = h.fd /\ tls.gen = h.gen

\* stream_send, stream_pull: a handle of a session gone by is refused
UseTls(h) ==
  /\ touched' = IF Owns(h) THEN [by |-> h.conn, on |-> fds[tls.fd].id] ELSE Nothing
  /\ UNCHANGED <<fds, bufs, files, plain, tls, handles, sessions, gen>>
UsePlain(d) ==
  /\ plain[d] # 0
  /\ touched' = [by |-> plain[d], on |-> fds[d].id]
  /\ UNCHANGED <<fds, bufs, files, plain, tls, handles, sessions, gen>>

CloseTlsUnowned(h) ==   \* mutant: closes the number in the handle
  /\ touched' = [by |-> h.conn, on |-> fds[h.fd].id]
  /\ tls' = NoSession /\ fds' = Close(fds, h.fd)
  /\ UNCHANGED <<bufs, files, plain, handles, sessions, gen>>
\* stream_close of a TLS handle: the program may go on holding it
CloseTls(h) ==
  /\ IF Owns(h)
     THEN /\ touched' = [by |-> h.conn, on |-> fds[tls.fd].id]
          /\ tls' = NoSession /\ fds' = Close(fds, tls.fd)
     ELSE touched' = Nothing /\ UNCHANGED <<tls, fds>>
  /\ UNCHANGED <<bufs, files, plain, handles, sessions, gen>>

\* stream_close of a plain descriptor, which the program then forgets
ClosePlain(d) ==
  /\ plain[d] # 0
  /\ touched' = [by |-> plain[d], on |-> fds[d].id]
  /\ fds' = Close(fds, d) /\ plain' = [plain EXCEPT ![d] = 0]
  /\ UNCHANGED <<bufs, files, tls, handles, sessions, gen>>

Next ==
  \/ \E f \in DOMAIN Content : FileOpen(f)
  \/ \E d \in Fds : FileClose(d) \/ ReadLine(d) \/ UsePlain(d) \/ ClosePlain(d)
  \/ Connect \/ ConnectTls \/ ConnectTlsFails
  \/ \E h \in handles : UseTls(h) \/ CloseTls(h)
Spec == Init /\ [][Next]_vars

(***************************************************************************)
(* Properties                                                              *)
(***************************************************************************)
\* What the program has read from a file, what its buffer still holds and
\* what the descriptor has not delivered are the file, in order: nothing is
\* repeated, lost or taken from another file, whichever numbers are reused
\* and whether or not the buffer table had room (raw_at_eof_impl,
\* raw_read_line_impl, io_buf_release).
LinesInOrder ==
  \A d \in Fds : files[d].file # 0 =>
    /\ fds[d].kind = "file" /\ fds[d].id = files[d].file
    /\ files[d].got \o Buffered(d) \o Unread(d) = Content[files[d].file]

\* A stream call acts on the connection its handle was issued for or on none:
\* a TLS handle kept after its session was closed or superseded reaches
\* neither the next session nor a file or socket that took its descriptor
\* number (stream_tls_owns, stream_close_impl).
TouchesOnlyItsOwn == touched.by = touched.on

\* Every open descriptor has exactly one owner who can still close it: no
\* failed or superseded connection leaks one (stream_connect_tls_impl).
NoDescriptorLost ==
  \A d \in Fds :
    LET owners == {o \in {"file", "plain", "tls"} :
                     \/ o = "file" /\ files[d].file # 0
                     \/ o = "plain" /\ plain[d] # 0
                     \/ o = "tls" /\ tls.active /\ tls.fd = d}
    IN IF fds[d].kind = "free" THEN owners = {} ELSE Cardinality(owners) = 1
=============================================================================
