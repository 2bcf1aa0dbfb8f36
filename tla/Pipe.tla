-------------------------------- MODULE Pipe --------------------------------
(***************************************************************************)
(* A pipe (main.c) shared by the processes that hold its two ends: the     *)
(* ring buffer, the two wait queues and the closing of the ends.           *)
(*                                                                         *)
(* A read or a write is one step up to wq_wait() and from there to the     *)
(* next one.  Which ready process runs is left open, as schedule() may     *)
(* choose any of them.                                                     *)
(***************************************************************************)
EXTENDS Integers, Sequences, FiniteSets, SequencesExt

CONSTANTS
  Procs,
  root,           \* the process that calls pipe()
  Bytes,
  PIPE_BUF_SIZE,
  SIZE_MOD,       \* 2^64: positions are size_t and wrap around
  MaxLen          \* bound on the length of a read or write

ASSUME PipeConstants ==
  /\ root \in Procs
  /\ PIPE_BUF_SIZE \in Nat \ {0} /\ MaxLen \in Nat
  /\ SIZE_MOD \in Nat \ {0} /\ SIZE_MOD % PIPE_BUF_SIZE = 0 /\ PIPE_BUF_SIZE < SIZE_MOD

VARIABLES
  buf, read_pos, write_pos, avail, read_closed, write_closed,
  rq, wq,        \* processes whose nodes are on the wait queues
  refcount,
  readers,       \* processes with a descriptor for the read end
  writers,       \* processes with a descriptor for the write end
  op,            \* process -> its system call: none, or read or write and
                 \* what is left of its argument
  state,         \* process -> run, sleep or ready (woken, not yet resumed)
  delivered,     \* ghost: what the last completed read returned
  halted         \* the kernel has panicked

ring == <<buf, read_pos, write_pos, avail>>
ends == <<read_closed, write_closed, refcount, readers, writers>>
vars == <<ring, ends, rq, wq, op, state, delivered, halted>>

NoOp == [call |-> "none"]
ReadOp(len) == [call |-> "read", len |-> len]
WriteOp(src) == [call |-> "write", src |-> src]

\* pipe_create; buf is zeroed, and byte 0 is one of Bytes.
Init ==
  /\ buf \in {[i \in 0 .. (PIPE_BUF_SIZE - 1) |-> b] : b \in {CHOOSE b \in Bytes : TRUE}}
  /\ read_pos = 0 /\ write_pos = 0 /\ avail = 0
  /\ read_closed = FALSE /\ write_closed = FALSE
  /\ rq = <<>> /\ wq = <<>>
  /\ refcount = 2
  /\ readers = {root} /\ writers = {root}
  /\ op = [p \in Procs |-> NoOp]
  /\ state = [p \in Procs |-> "run"]
  /\ delivered = <<>>
  /\ halted = FALSE

Least(a, b) == IF a <= b THEN a ELSE b

Running(p) == ~halted /\ state[p] = "run" /\ op[p] = NoOp

-----------------------------------------------------------------------------
(* Ring buffer *)

\* The n oldest bytes.
Oldest(n) == [i \in 1 .. n |-> buf[(read_pos + i - 1) % PIPE_BUF_SIZE]]

\* Wrong variant: the bytes go to the front of the buffer.
StoreAtFront(s) ==
  [j \in 0 .. (PIPE_BUF_SIZE - 1) |-> IF j < Len(s) THEN s[j + 1] ELSE buf[j]]

\* The buffer after the bytes of s are stored from write_pos on.
Stored(s) ==
  [j \in 0 .. (PIPE_BUF_SIZE - 1) |->
     LET i == (j - write_pos) % PIPE_BUF_SIZE IN IF i < Len(s) THEN s[i + 1] ELSE buf[j]]

Advance(pos, n) == (pos + n) % SIZE_MOD

\* Wrong variant: the read position stays.
TakeAgain(n) == delivered' = Oldest(n) /\ avail' = avail - n /\ UNCHANGED read_pos

Take(n) ==
  /\ delivered' = Oldest(n)
  /\ read_pos' = Advance(read_pos, n)
  /\ avail' = avail - n

\* Wrong variant: as much as the buffer holds, whatever is in it.
AcceptsTooMuch(src) == Least(Len(src), PIPE_BUF_SIZE)

\* How many bytes of src the write loop copies before it stops.
Accepted(src) == Least(Len(src), PIPE_BUF_SIZE - avail)

-----------------------------------------------------------------------------
(* Wait queues *)

\* wq_wake_one: the first node is unlinked and its process made ready.
Unlinked(q) == IF q = <<>> THEN q ELSE Tail(q)
WokenOne(q, st) == IF q = <<>> THEN st ELSE [st EXCEPT ![Head(q)] = "ready"]

\* Wrong variant: wq_wake_all wakes the first process only.
WokenFirst(q, st) == WokenOne(q, st)

WokenAll(q, st) == [p \in Procs |-> IF p \in Range(q) THEN "ready" ELSE st[p]]

-----------------------------------------------------------------------------
(* Reading and writing *)

\* pipe_read_fn for len bytes by p, whose node is on the queue r no more, with
\* the other processes in states st.
ReadFrom(p, len, r, st) ==
  \/ /\ avail > 0
     /\ Take(Least(len, avail))
     /\ op' = [op EXCEPT ![p] = NoOp]
     /\ rq' = r /\ wq' = Unlinked(wq) /\ state' = WokenOne(wq, st)
     /\ UNCHANGED <<buf, write_pos>>
  \/ /\ avail = 0 /\ write_closed
     /\ delivered' = <<>>
     /\ op' = [op EXCEPT ![p] = NoOp]
     /\ rq' = r /\ state' = st
     /\ UNCHANGED <<ring, wq>>
  \/ /\ avail = 0 /\ ~write_closed
     /\ op' = [op EXCEPT ![p] = ReadOp(len)]
     /\ rq' = Append(r, p) /\ state' = [st EXCEPT ![p] = "sleep"]
     /\ UNCHANGED <<ring, wq, delivered>>

\* The loop of pipe_write_fn for the bytes src: it stores what fits, wakes a
\* reader if it stored something, and sleeps if something is left.
WriteFrom(p, src, w, st) ==
  LET n == Accepted(src)
      left == SubSeq(src, n + 1, Len(src))
      woken == IF n > 0 THEN WokenOne(rq, st) ELSE st
  IN /\ buf' = Stored(SubSeq(src, 1, n))
     /\ write_pos' = Advance(write_pos, n)
     /\ avail' = avail + n
     /\ rq' = IF n > 0 THEN Unlinked(rq) ELSE rq
     /\ \/ /\ left = <<>>
           /\ op' = [op EXCEPT ![p] = NoOp]
           /\ wq' = w /\ state' = woken
        \/ /\ left # <<>>
           /\ op' = [op EXCEPT ![p] = WriteOp(left)]
           /\ wq' = Append(w, p) /\ state' = [woken EXCEPT ![p] = "sleep"]
     /\ UNCHANGED <<read_pos, delivered>>

sys_read(p, len) ==
  /\ Running(p) /\ p \in readers
  /\ ReadFrom(p, len, rq, state)
  /\ UNCHANGED <<ends, halted>>

\* With the read end closed it is SIGPIPE and -EPIPE.
sys_write(p, src) ==
  /\ Running(p) /\ p \in writers
  /\ ~read_closed
  /\ WriteFrom(p, src, wq, state)
  /\ UNCHANGED <<ends, halted>>

\* wq_wait returns.  A node that a waker has already unlinked is unlinked
\* again, through NULL links; otherwise the loop goes round.
Resume(p) ==
  LET run == [state EXCEPT ![p] = "run"]
      Without(q) == SelectSeq(q, LAMBDA x : x # p)
  IN /\ ~halted /\ state[p] = "ready"
     /\ \/ /\ p \notin Range(rq) \cup Range(wq)
           /\ halted' = TRUE
           /\ UNCHANGED <<ring, rq, wq, op, state, delivered>>
        \/ /\ p \in Range(rq)
           /\ ReadFrom(p, op[p].len, Without(rq), run)
           /\ UNCHANGED halted
        \/ /\ p \in Range(wq)
           /\ WriteFrom(p, op[p].src, Without(wq), run)
           /\ UNCHANGED halted
     /\ UNCHANGED ends

\* signal_send to a sleeper: wait_channel is NULL here, so the process is made
\* ready and its node stays on the queue.
Signal(p) ==
  /\ ~halted /\ state[p] = "sleep"
  /\ state' = [state EXCEPT ![p] = "ready"]
  /\ UNCHANGED <<ring, ends, rq, wq, op, delivered, halted>>

-----------------------------------------------------------------------------
(* Descriptors *)

\* fork: the child has the parent's descriptors.
Fork(p, q) ==
  /\ Running(p) /\ Running(q) /\ q \notin readers \cup writers
  /\ readers' = IF p \in readers THEN readers \cup {q} ELSE readers
  /\ writers' = IF p \in writers THEN writers \cup {q} ELSE writers
  /\ UNCHANGED <<ring, read_closed, write_closed, refcount, rq, wq, op, state, delivered, halted>>

\* Wrong variant: the end is closed with its first descriptor.
AnyHolder(holders, p) == TRUE

\* Whether p closes the last descriptor of an end: file_put then calls close.
LastHolder(holders, p) == holders = {p}

close_read(p) ==
  /\ Running(p) /\ p \in readers
  /\ readers' = readers \ {p}
  /\ IF LastHolder(readers, p)
       THEN /\ read_closed' = TRUE
            /\ state' = WokenAll(wq, state) /\ wq' = <<>>
            /\ refcount' = refcount - 1
       ELSE UNCHANGED <<read_closed, state, wq, refcount>>
  /\ UNCHANGED <<ring, write_closed, writers, rq, op, delivered, halted>>

close_write(p) ==
  /\ Running(p) /\ p \in writers
  /\ writers' = writers \ {p}
  /\ IF LastHolder(writers, p)
       THEN /\ write_closed' = TRUE
            /\ state' = WokenAll(rq, state) /\ rq' = <<>>
            /\ refcount' = refcount - 1
       ELSE UNCHANGED <<write_closed, state, rq, refcount>>
  /\ UNCHANGED <<ring, read_closed, readers, wq, op, delivered, halted>>

Halt == halted /\ UNCHANGED vars

\* Everybody sleeps, or nobody has an end any more: the pipe rests until a
\* signal or for good.
Rest ==
  /\ ~halted /\ \A p \in Procs : state[p] = "run" => p \notin readers \cup writers
  /\ UNCHANGED vars

Next ==
  \/ \E p \in Procs :
       \/ \E len \in 0 .. MaxLen : sys_read(p, len)
       \/ \E len \in 0 .. MaxLen : \E src \in [1 .. len -> Bytes] : sys_write(p, src)
       \/ Resume(p)
       \/ Signal(p)
       \/ \E q \in Procs : Fork(p, q)
       \/ close_read(p)
       \/ close_write(p)
  \/ Halt
  \/ Rest

Spec == Init /\ [][Next]_vars
-----------------------------------------------------------------------------
(* Properties *)

\* Every field of the pipe and of the calls in progress has its type, and the
\* number of bytes never exceeds the buffer.
TypeOK ==
  /\ buf \in [0 .. (PIPE_BUF_SIZE - 1) -> Bytes]
  /\ read_pos \in 0 .. (SIZE_MOD - 1) /\ write_pos \in 0 .. (SIZE_MOD - 1)
  /\ avail \in 0 .. PIPE_BUF_SIZE
  /\ read_closed \in BOOLEAN /\ write_closed \in BOOLEAN /\ halted \in BOOLEAN
  /\ rq \in Seq(Procs) /\ wq \in Seq(Procs)
  /\ refcount \in 0 .. 2
  /\ readers \subseteq Procs /\ writers \subseteq Procs
  /\ op \in [Procs -> {NoOp} \cup {ReadOp(n) : n \in 0 .. MaxLen}
                        \cup {WriteOp(s) : s \in UNION {[1 .. n -> Bytes] : n \in 1 .. MaxLen}}]
  /\ state \in [Procs -> {"run", "sleep", "ready"}]
  /\ delivered \in Seq(Bytes)

\* The three counters agree, through wrap-around and however reads and writes
\* of different lengths and processes alternate.
CountersAgree == write_pos = Advance(read_pos, avail)

\* The pipe is a first-in first-out queue of bytes: the ring buffer implements
\* ByteQueue whatever the lengths, the order and the processes.
Queue == INSTANCE ByteQueue WITH
  Capacity <- PIPE_BUF_SIZE, content <- Oldest(avail)
IsQueue == Queue!Spec

\* A waker has taken a process inside such a call off its queue, and it has not
\* gone on yet.
WokenFor(call) ==
  \E q \in Procs : state[q] = "ready" /\ op[q].call = call /\ q \notin Range(rq) \cup Range(wq)

\* Nobody sleeps once the other end is closed: the close has woken all.  Before,
\* a reader sleeps only while there is nothing to read, and a writer only while
\* the buffer is full, or else another one was taken off the queue for it; one
\* that a signal has made ready does not count.
NoLostWakeup ==
  ~halted => \A p \in Procs : state[p] = "sleep" =>
    \/ op[p].call = "read" /\ ~write_closed /\ (avail = 0 \/ WokenFor("read"))
    \/ op[p].call = "write" /\ ~read_closed /\ (avail = PIPE_BUF_SIZE \/ WokenFor("write"))

\* The pipe is freed only when no process is inside a call on it, and then with
\* both ends closed: a sleeper keeps its end open.
FreedUnused ==
  refcount = 0 => read_closed /\ write_closed /\ \A p \in Procs : op[p] = NoOp
=============================================================================
