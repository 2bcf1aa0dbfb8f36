-------------------------------- MODULE Proc --------------------------------
(***************************************************************************)
(* Processes: the scheduler and the wait queue a parent sleeps on          *)
(* (proc/sched.c), fork, exit, wait and signals (proc/process.c), the      *)
(* system calls that reach them and the tail of the interrupt handler      *)
(* (arch/x86_64/idt.c).                                                    *)
(*                                                                         *)
(* One CPU.  A system call and an interrupt handler run with interrupts    *)
(* off, so each is one step up to the point where it calls schedule();     *)
(* what follows that call is a step of its own (Resume), taken when the    *)
(* process is switched to again.  context_switch is taken to resume a      *)
(* process where it called schedule() and a new child in user mode.        *)
(***************************************************************************)
EXTENDS Integers, Sequences, FiniteSets, SequencesExt

CONSTANTS
  Procs,            \* process_t structures
  idle, init,       \* g_idle_proc and g_init_proc, two of Procs
  NULL,
  PID_MAX,          \* pids are 1 .. PID_MAX-1
  SCHED_TIMESLICE,  \* ticks a process runs before schedule() (10)
  Codes,            \* exit codes that processes use
  KillPids,         \* first arguments of kill()
  KillSignals,      \* second arguments of kill()
  WaitPids,         \* first arguments of wait4()
  Faults,           \* signals that exceptions in user mode raise
  SigActions,       \* arguments of sigaction(): <<signo, [handler, mask, resethand]>>
  Masks             \* sets passed to sigprocmask()

SIGKILL == 9
SIGUSR1 == 10
SIGSEGV == 11
SIGCHLD == 17
SIGCONT == 18
SIGSTOP == 19

\* The signals that occur.
Signals == KillSignals \cup Faults \cup {SIGKILL, SIGSEGV, SIGCHLD}

ASSUME ProcConstants ==
  /\ {idle, init} \subseteq Procs /\ idle # init /\ NULL \notin Procs
  /\ PID_MAX \in Nat /\ PID_MAX > 2
  /\ SCHED_TIMESLICE \in Nat \ {0}
  /\ Codes \subseteq Nat
  /\ KillPids \subseteq Int /\ WaitPids \subseteq Int
  /\ KillSignals \subseteq 1..64 /\ Faults \subseteq 1..64
  /\ Masks \subseteq SUBSET Signals
  /\ \A act \in SigActions : act[1] \in Signals /\ act[2].mask \subseteq Signals

VARIABLES
  proc,          \* process_t -> its fields
  g_runq,        \* [next, prev, bitmap, total]: the links of queues and run_lists
  g_current,
  g_pid_table,   \* slot -> process_t or NULL
  g_next_pid,
  g_all_procs,
  halted         \* PANIC or cpu_halt: nothing runs any more

vars == <<proc, g_runq, g_current, g_pid_table, g_next_pid, g_all_procs, halted>>

-----------------------------------------------------------------------------
(* Run queue *)

PRIO_USER == 20
PRIO_IDLE == 39
priority(p) == IF p = idle THEN PRIO_IDLE ELSE PRIO_USER

\* The list heads of the queues that occur, and the run_list node of a process.
Heads == {PRIO_USER, PRIO_IDLE}
Nodes == Procs \cup Heads

\* __list_add: the links of L with node n put between p and q.  The stores
\* are made in this order, so a node that is put behind itself (p = n) ends
\* with both links on itself.
__list_add(L, n, p, q) ==
  [L EXCEPT !.next = [@ EXCEPT ![n] = q, ![p] = n], !.prev = [@ EXCEPT ![q] = n, ![n] = p]]

list_add_tail(L, n, head) == __list_add(L, n, L.prev[head], head)

list_empty(L, head) == L.next[head] = head

\* list_del and INIT_LIST_HEAD of node n.
list_del_init(L, n) ==
  [L EXCEPT !.next = [@ EXCEPT ![L.prev[n]] = L.next[n], ![n] = n],
            !.prev = [@ EXCEPT ![L.next[n]] = L.prev[n], ![n] = n]]

\* Wrong variant: pushed at the head of its queue.
PushAtHead(rq, p) ==
  [__list_add(rq, p, priority(p), rq.next[priority(p)]) EXCEPT
     !.bitmap = @ \cup {priority(p)}, !.total = @ + 1]

runq_push(rq, p) ==
  [list_add_tail(rq, p, priority(p)) EXCEPT
     !.bitmap = @ \cup {priority(p)}, !.total = @ + 1]

\* Wrong variant: a queue that becomes empty keeps its bit.
PopKeepsBit(rq) ==
  LET prio == CHOOSE q \in rq.bitmap : \A r \in rq.bitmap : q <= r
      first == rq.next[prio]
  IN IF rq.total = 0 THEN [proc |-> NULL, rq |-> rq]
     ELSE IF list_empty(rq, prio)
       THEN [proc |-> NULL, rq |-> [rq EXCEPT !.bitmap = @ \ {prio}]]
     ELSE [proc |-> first, rq |-> [list_del_init(rq, first) EXCEPT !.total = @ - 1]]

runq_pop_best(rq) ==
  LET prio == CHOOSE q \in rq.bitmap : \A r \in rq.bitmap : q <= r
      first == rq.next[prio]
      rest == list_del_init(rq, first)
  IN IF rq.total = 0
       THEN [proc |-> NULL, rq |-> rq]
     ELSE IF list_empty(rq, prio)
       THEN [proc |-> NULL, rq |-> [rq EXCEPT !.bitmap = @ \ {prio}]]
     ELSE [proc |-> first,
           rq |-> [rest EXCEPT !.bitmap = IF list_empty(rest, prio) THEN @ \ {prio} ELSE @,
                               !.total = @ - 1]]

\* Wrong variant: the previous process goes back to the queue whatever its state.
ScheduleRequeuesAll(pt, rq) ==
  LET best == runq_pop_best(rq)
      next == IF best.proc = NULL THEN idle ELSE best.proc
  IN /\ next # g_current
     /\ g_current' = next
     /\ proc' = [pt EXCEPT ![next].state = "RUNNING"]
     /\ g_runq' = runq_push(best.rq, g_current)

\* Wrong variant: the previous process is queued but stays RUNNING.
ScheduleLeavesRunning(pt, rq) ==
  LET best == runq_pop_best(rq)
      next == IF best.proc = NULL THEN idle ELSE best.proc
  IN /\ next # g_current
     /\ g_current' = next
     /\ proc' = [pt EXCEPT ![next].state = "RUNNING"]
     /\ g_runq' = IF pt[g_current].state = "RUNNING" THEN runq_push(best.rq, g_current) ELSE best.rq

\* schedule() called with process table pt and run queue rq.
schedule(pt, rq) ==
  \E best \in {runq_pop_best(rq)} :
    LET prev == g_current
        next == IF best.proc = NULL THEN idle ELSE best.proc
        switched == [pt EXCEPT ![next].time_slice = SCHED_TIMESLICE,
                               ![next].state = "RUNNING"]
    IN \/ /\ next = prev
          /\ proc' = pt /\ g_runq' = best.rq
          /\ UNCHANGED g_current
       \/ /\ next # prev
          /\ g_current' = next
          /\ IF pt[prev].state = "RUNNING"
               THEN /\ proc' = [switched EXCEPT ![prev].state = "READY"]
                    /\ g_runq' = runq_push(best.rq, prev)
               ELSE proc' = switched /\ g_runq' = best.rq

-----------------------------------------------------------------------------
(* Processes *)

DefaultAction == [handler |-> "DFL", mask |-> {}, resethand |-> FALSE]

\* A process_t that is not allocated.  kpc says what the process will do when
\* it runs: user code, or the rest of proc_wait or proc_exit after schedule().
\* linked: its node is on its wait_child queue; target is what it waits for
\* there.
Blank ==
  [state |-> "NONE", pid |-> 0, parent |-> NULL, children |-> <<>>, exit_code |-> 0,
   time_slice |-> SCHED_TIMESLICE, sig_pending |-> {}, sig_blocked |-> {},
   sig_handlers |-> [s \in Signals |-> DefaultAction],
   linked |-> FALSE, kpc |-> "user", target |-> 0]

\* kernel_main_thread: idle was created first (pid 1), init second (slot 2),
\* and init's pid field is then overwritten with 1.
Init ==
  /\ proc = [p \in Procs |->
               CASE p = idle -> [Blank EXCEPT !.state = "READY", !.pid = 1]
                 [] p = init -> [Blank EXCEPT !.state = "RUNNING", !.pid = 1]
                 [] OTHER -> Blank]
  /\ g_runq = [next |-> [n \in Nodes |-> n], prev |-> [n \in Nodes |-> n], bitmap |-> {}, total |-> 0]
  /\ g_current = init
  /\ g_pid_table = [n \in 1 .. (PID_MAX - 1) |-> CASE n = 1 -> idle [] n = 2 -> init
                                                  [] OTHER -> NULL]
  /\ g_next_pid = 3
  /\ g_all_procs = <<idle, init>>
  /\ halted = FALSE

\* No process ever leaves the group it was created in: idle's is 1, init and
\* its descendants share 2.
pgid(p) == IF p = idle THEN 1 ELSE 2

\* The process that may make a system call.
Calling == ~halted /\ g_current # idle /\ proc[g_current].kpc = "user"

\* Wrong variant: the next pid is taken without looking whether it is free.
PidIgnoringTable == IF g_next_pid >= PID_MAX THEN 2 ELSE g_next_pid

\* The first free pid from g_next_pid on, wrapping to 2; -1 when there is none.
pid_alloc ==
  LET start == IF g_next_pid >= PID_MAX THEN 2 ELSE g_next_pid
      free == {n \in 1 .. (PID_MAX - 1) : g_pid_table[n] = NULL}
      above == {n \in free : n >= start}
      candidates == IF above # {} THEN above ELSE free \ {1}
  IN IF candidates = {} THEN -1 ELSE CHOOSE n \in candidates : \A m \in candidates : n <= m

sys_fork ==
  /\ Calling
  /\ UNCHANGED <<g_current, halted>>
  /\ LET pid == pid_alloc
     IN \/ \* no memory for the process_t, or no pid
           /\ UNCHANGED <<proc, g_runq, g_pid_table, g_next_pid, g_all_procs>>
        \/ \* the address space, stack or descriptor table cannot be allocated
           /\ pid # -1
           /\ g_next_pid' = pid + 1
           /\ UNCHANGED <<proc, g_runq, g_pid_table, g_all_procs>>
        \/ /\ pid # -1
           /\ \E child \in Procs :
                /\ proc[child].state = "NONE"
                /\ proc' = [proc EXCEPT
                     ![child] = [Blank EXCEPT
                        !.state = "READY", !.pid = pid, !.parent = g_current,
                        !.sig_blocked = proc[g_current].sig_blocked,
                        !.sig_handlers = proc[g_current].sig_handlers],
                     ![g_current].children = Append(@, child)]
                /\ g_runq' = runq_push(g_runq, child)
                /\ g_pid_table' = [g_pid_table EXCEPT ![pid] = child]
                /\ g_next_pid' = pid + 1
                /\ g_all_procs' = Append(g_all_procs, child)

-----------------------------------------------------------------------------
(* Sending signals *)

\* Wrong variant: whatever does not run is woken, zombies too.
SignalledAwake(pt, t, s) ==
  [pt EXCEPT ![t].sig_pending = @ \cup {s},
             ![t].state = IF @ = "RUNNING" THEN @ ELSE "READY"]

\* signal_send(t, s): a sleeper is made ready and its node taken off the wait
\* queue.
Signalled(pt, t, s) ==
  IF pt[t].state = "ZOMBIE" THEN pt
  ELSE IF pt[t].state = "SLEEPING"
    THEN [pt EXCEPT ![t].sig_pending = @ \cup {s}, ![t].state = "READY", ![t].linked = FALSE]
  ELSE [pt EXCEPT ![t].sig_pending = @ \cup {s}]

\* The sleeper is pushed by wq_wake_one and again by proc_wake: the second time
\* its node is the last of its queue and is put behind itself.
Woken(pt, rq, t) ==
  IF pt[t].state = "SLEEPING" THEN runq_push(runq_push(rq, t), t) ELSE rq

\* signal_send to every process of a sequence, in order.
SignalledAll(pt, ts, s) == FoldLeft(LAMBDA acc, t : Signalled(acc, t, s), pt, ts)
WokenAll(pt, rq, ts) == FoldLeft(LAMBDA acc, t : Woken(pt, acc, t), rq, ts)

KillTargets(pid) ==
  CASE pid > 0 -> IF pid < PID_MAX /\ g_pid_table[pid] # NULL THEN <<g_pid_table[pid]>> ELSE <<>>
    [] pid = 0 -> SelectSeq(g_all_procs, LAMBDA p : pgid(p) = pgid(g_current))
    [] pid = -1 -> SelectSeq(g_all_procs, LAMBDA p : pgid(p) = 0)
    [] OTHER -> SelectSeq(g_all_procs, LAMBDA p : pgid(p) = -pid)

sys_kill(pid, signo) ==
  /\ Calling
  /\ proc' = SignalledAll(proc, KillTargets(pid), signo)
  /\ g_runq' = WokenAll(proc, g_runq, KillTargets(pid))
  /\ UNCHANGED <<g_current, g_pid_table, g_next_pid, g_all_procs, halted>>

-----------------------------------------------------------------------------
(* Exit and wait *)

\* Wrong variant: the children of a dead process keep it as their parent.
OrphansKeepParent(pt, code) ==
  [pt EXCEPT ![g_current].exit_code = (code % 256) * 256, ![g_current].state = "ZOMBIE",
             ![g_current].kpc = "exit"]

\* What proc_exit does to the dying process, its children and init.
Buried(pt, code) ==
  LET me == g_current
      orphans == pt[me].children
      adopted == me # init
  IN [p \in Procs |->
        CASE p = me ->
               [pt[p] EXCEPT !.exit_code = (code % 256) * 256, !.state = "ZOMBIE",
                             !.children = <<>>, !.kpc = "exit"]
          [] adopted /\ p = init -> [pt[p] EXCEPT !.children = @ \o orphans]
          [] adopted /\ p \in Range(orphans) -> [pt[p] EXCEPT !.parent = init]
          [] OTHER -> pt[p]]

\* Wrong variant: init is told instead of the parent.
ExitTellsInit(pt, code) ==
  LET buried == Buried(pt, code)
  IN schedule(Signalled(buried, init, SIGCHLD), Woken(buried, g_runq, init))

\* The parent gets SIGCHLD; wq_wake_all(wait_child) then finds no node, since
\* the signal has already unlinked the only process that sleeps there.  The
\* dying process is not on the run queue, so sched_remove does nothing.
proc_exit(pt, code) ==
  LET parent == pt[g_current].parent
      buried == Buried(pt, code)
  IN IF parent = NULL
       THEN schedule(buried, g_runq)
       ELSE schedule(Signalled(buried, parent, SIGCHLD), Woken(buried, g_runq, parent))

sys_exit(code) ==
  /\ Calling
  /\ proc_exit(proc, code)
  /\ UNCHANGED <<g_pid_table, g_next_pid, g_all_procs, halted>>

WaitsFor(p, target, c) ==
  CASE target > 0 -> proc[c].pid = target
    [] target = 0 -> pgid(c) = pgid(p)
    [] target < -1 -> pgid(c) = -target
    [] OTHER -> TRUE

\* Wrong variant: a child that has not exited yet is reaped too.
ReapableAlive(target) == SelectSeq(proc[g_current].children, LAMBDA c : WaitsFor(g_current, target, c))

Reapable(target) ==
  SelectSeq(proc[g_current].children,
            LAMBDA c : WaitsFor(g_current, target, c) /\ proc[c].state = "ZOMBIE")

\* -ECHILD without children, 0 with WNOHANG when none has exited; otherwise the
\* first zombie is destroyed, or the caller sleeps on its wait_child queue.
sys_wait4(target, nohang) ==
  LET me == g_current
      found == Reapable(target)
      child == Head(found)
  IN /\ Calling
     /\ \/ /\ proc[me].children = <<>> \/ (found = <<>> /\ nohang)
           /\ UNCHANGED vars
        \/ /\ found # <<>>
           /\ proc' = [proc EXCEPT ![child] = Blank,
                         ![me].children = SelectSeq(@, LAMBDA c : c # child)]
           /\ g_pid_table' = [g_pid_table EXCEPT ![proc[child].pid] = NULL]
           /\ g_all_procs' = SelectSeq(g_all_procs, LAMBDA p : p # child)
           /\ UNCHANGED <<g_runq, g_current, g_next_pid, halted>>
        \/ /\ proc[me].children # <<>> /\ found = <<>> /\ ~nohang
           /\ schedule([proc EXCEPT ![me].state = "SLEEPING", ![me].linked = TRUE,
                                    ![me].kpc = "wait4", ![me].target = target], g_runq)
           /\ UNCHANGED <<g_pid_table, g_next_pid, g_all_procs, halted>>

\* What follows schedule().  In wq_wait it is list_del of the sleeper's node:
\* the waker has already removed it, and its links are NULL.  In proc_exit it
\* is cpu_halt, reached only when idle, having exited, is chosen again.
Resume ==
  /\ ~halted
  /\ \/ proc[g_current].kpc = "wait4" /\ ~proc[g_current].linked
     \/ proc[g_current].kpc = "exit"
  /\ halted' = TRUE
  /\ UNCHANGED <<proc, g_runq, g_current, g_pid_table, g_next_pid, g_all_procs>>

sys_sched_yield ==
  /\ Calling
  /\ schedule([proc EXCEPT ![g_current].time_slice = 0], g_runq)
  /\ UNCHANGED <<g_pid_table, g_next_pid, g_all_procs, halted>>

-----------------------------------------------------------------------------
(* Signal handling *)

\* The end of isr_common_handler.
ScheduleIfExpired(pt) ==
  \/ pt[g_current].time_slice = 0 /\ schedule(pt, g_runq)
  \/ pt[g_current].time_slice # 0 /\ proc' = pt /\ UNCHANGED <<g_runq, g_current>>


\* A handler of the process: the frame is pushed, or its stack is bad.
CallHandler(pt, signo) ==
  LET me == g_current
      sa == pt[me].sig_handlers[signo]
  IN \/ ScheduleIfExpired([pt EXCEPT ![me].sig_pending = @ \cup {SIGSEGV}])
     \/ ScheduleIfExpired(
          [pt EXCEPT ![me].sig_blocked = @ \cup sa.mask \cup {signo},
                     ![me].sig_handlers[signo] =
                        IF sa.resethand THEN [@ EXCEPT !.handler = "DFL", !.resethand = FALSE] ELSE @])

\* Wrong variant: no default action ends a process.
DefaultReturns(pt, signo) ==
  LET taken == [pt EXCEPT ![g_current].sig_pending = @ \ {signo}]
  IN IF pt[g_current].sig_handlers[signo].handler = "USER"
       THEN CallHandler(taken, signo) ELSE ScheduleIfExpired(taken)

\* signal_handle takes the lowest pending signal that is not blocked.
signal_handle(pt, signo) ==
  LET me == g_current
      taken == [pt EXCEPT ![me].sig_pending = @ \ {signo}]
      handler == pt[me].sig_handlers[signo].handler
  IN \/ /\ handler = "IGN" \/ (handler = "DFL" /\ signo = SIGCHLD)
        /\ ScheduleIfExpired(taken)
     \/ /\ handler = "DFL" /\ signo = SIGSTOP
        /\ schedule([taken EXCEPT ![me].state = "STOPPED"], g_runq)
     \/ /\ handler = "DFL" /\ signo = SIGCONT
        /\ ScheduleIfExpired([taken EXCEPT ![me].state = "RUNNING"])
     \/ /\ handler = "DFL" /\ signo \notin {SIGCHLD, SIGSTOP, SIGCONT}
        /\ proc_exit(taken, signo)
     \/ /\ handler = "USER"
        /\ CallHandler(taken, signo)

\* The part of isr_common_handler after the interrupt's own work.
InterruptReturn(pt) ==
  LET deliverable == pt[g_current].sig_pending \ pt[g_current].sig_blocked
  IN \/ deliverable = {} /\ ScheduleIfExpired(pt)
     \/ \E signo \in deliverable :
          (\A s \in deliverable : signo <= s) /\ signal_handle(pt, signo)

\* Wrong variant: the time slice is decremented past zero.
TickPastZero ==
  /\ ~halted /\ proc[g_current].kpc = "user"
  /\ InterruptReturn([proc EXCEPT ![g_current].time_slice = @ - 1])
  /\ UNCHANGED <<g_pid_table, g_next_pid, g_all_procs, halted>>

\* The timer interrupts user code and the idle loop.
timer_irq ==
  /\ ~halted /\ proc[g_current].kpc = "user"
  /\ InterruptReturn([proc EXCEPT ![g_current].time_slice = IF @ > 0 THEN @ - 1 ELSE 0])
  /\ UNCHANGED <<g_pid_table, g_next_pid, g_all_procs, halted>>

\* An exception in user code (page fault, division by zero, ...).
exception(signo) ==
  /\ Calling
  /\ InterruptReturn([proc EXCEPT ![g_current].sig_pending = @ \cup {signo}])
  /\ UNCHANGED <<g_pid_table, g_next_pid, g_all_procs, halted>>

sys_rt_sigaction(signo, sa) ==
  /\ Calling
  /\ signo \notin {SIGKILL, SIGSTOP}
  /\ proc' = [proc EXCEPT ![g_current].sig_handlers[signo] = sa]
  /\ UNCHANGED <<g_runq, g_current, g_pid_table, g_next_pid, g_all_procs, halted>>

sys_rt_sigprocmask(how, set) ==
  LET mask == set \ {SIGKILL, SIGSTOP}
      old == proc[g_current].sig_blocked
  IN /\ Calling
     /\ \E new \in {CASE how = "SIG_BLOCK" -> old \cup mask
                      [] how = "SIG_UNBLOCK" -> old \ mask
                      [] how = "SIG_SETMASK" -> mask} :
          proc' = [proc EXCEPT ![g_current].sig_blocked = new]
     /\ UNCHANGED <<g_runq, g_current, g_pid_table, g_next_pid, g_all_procs, halted>>

\* A successful execve resets every handler that is not SIG_IGN.
sys_execve ==
  /\ Calling
  /\ proc' = [proc EXCEPT ![g_current].sig_handlers =
                [s \in Signals |-> IF @[s].handler = "IGN" THEN @[s] ELSE DefaultAction]]
  /\ UNCHANGED <<g_runq, g_current, g_pid_table, g_next_pid, g_all_procs, halted>>

\* The machine stays halted.
Halt == halted /\ UNCHANGED vars

Next ==
  \/ sys_fork
  \/ \E code \in Codes : sys_exit(code)
  \/ \E target \in WaitPids, nohang \in BOOLEAN : sys_wait4(target, nohang)
  \/ \E pid \in KillPids, signo \in KillSignals : sys_kill(pid, signo)
  \/ sys_sched_yield
  \/ Resume
  \/ timer_irq
  \/ \E signo \in Faults : exception(signo)
  \/ \E act \in SigActions : sys_rt_sigaction(act[1], act[2])
  \/ \E how \in {"SIG_BLOCK", "SIG_UNBLOCK", "SIG_SETMASK"}, set \in Masks :
       sys_rt_sigprocmask(how, set)
  \/ sys_execve
  \/ Halt

Spec == Init /\ [][Next]_vars

\* The timer keeps firing, and a process that was switched to goes on.
FairSpec == Spec /\ WF_vars(timer_irq) /\ WF_vars(Resume)
-----------------------------------------------------------------------------
(* Properties *)

\* The fields of every process, the run queue and the tables have their types.
TypeOK ==
  /\ proc \in [Procs ->
       [state : {"NONE", "READY", "RUNNING", "SLEEPING", "STOPPED", "ZOMBIE"},
        pid : 0 .. (PID_MAX - 1), parent : Procs \cup {NULL}, children : Seq(Procs),
        exit_code : Nat, time_slice : 0 .. SCHED_TIMESLICE,
        sig_pending : SUBSET Signals, sig_blocked : SUBSET Signals,
        sig_handlers : [Signals -> [handler : {"DFL", "IGN", "USER"}, mask : SUBSET Signals,
                                    resethand : BOOLEAN]],
        linked : BOOLEAN, kpc : {"user", "wait4", "exit"}, target : WaitPids \cup {0}]]
  /\ g_runq \in [next : [Nodes -> Nodes], prev : [Nodes -> Nodes],
                 bitmap : SUBSET Heads, total : Nat]
  /\ g_current \in Procs
  /\ g_pid_table \in [1 .. (PID_MAX - 1) -> Procs \cup {NULL}]
  /\ g_next_pid \in 2 .. PID_MAX
  /\ g_all_procs \in Seq(Procs)
  /\ halted \in BOOLEAN

\* The processes met from a list head along the next links.
QueueOf(head) ==
  LET at[k \in 0 .. Cardinality(Nodes)] == IF k = 0 THEN head ELSE g_runq.next[at[k - 1]]
  IN {at[k] : k \in DOMAIN at} \ {head}

\* The kernel is in no call that a wake-up from wait4() is about to end in a
\* panic.
Steady == ~halted /\ proc[g_current].kpc = "user"

\* Woken from wait4() and not chosen yet: its node was put behind itself.
WokenWaiters == {p \in Procs : proc[p].state = "READY" /\ proc[p].kpc = "wait4"}

\* The bitmap names exactly the queues whose list is not empty, and total counts
\* the listed processes, and once more each that was woken from wait4(), since
\* wq_wake_one and proc_wake both count it: total is never below the number
\* of processes that runq_pop_best can find, and 0 only when there is none.
RunqConsistent ==
  Steady =>
    /\ g_runq.bitmap = {q \in Heads : ~list_empty(g_runq, q)}
    /\ g_runq.total = Cardinality(UNION {QueueOf(q) : q \in Heads}) + Cardinality(WokenWaiters)

\* Along the next links the user queue meets exactly the processes that are
\* ready, so none that can run is forgotten and none that sleeps, is stopped or
\* has exited is chosen.  Its links agree in both directions and close on the head,
\* but for a process woken from wait4(): pushed twice, it points back to
\* itself, and forward to itself too until another is pushed behind it.
ReadyIffQueued ==
  LET queue == QueueOf(PRIO_USER)
      last == g_runq.prev[PRIO_USER]
  IN Steady =>
       /\ queue = {p \in Procs \ {idle} : proc[p].state = "READY"}
       /\ \A n \in queue \cup {PRIO_USER} :
            g_runq.prev[g_runq.next[n]] = n \/ g_runq.next[n] \in WokenWaiters
       /\ last \in queue \cup {PRIO_USER}
       /\ g_runq.next[last] \in {PRIO_USER} \cup ({last} \cap WokenWaiters)

\* The process in state RUNNING is the current one, whatever schedule(),
\* proc_exit and the signal defaults have done to the states.
OnlyCurrentRuns ==
  \A p \in Procs \ {idle} : (proc[p].state = "RUNNING") <=> (p = g_current)

Existing == {p \in Procs : proc[p].state # "NONE"}

\* No process has a parent that was destroyed or that has exited (init apart),
\* and it is on that parent's list of children and on no other, once:
\* proc_exit's reparenting and proc_wait's removal keep the two in step.  When
\* init exits it drops its children without a new parent.
FamilyTree ==
  \A c \in Existing \ {idle, init} :
    LET p == proc[c].parent
        Listed(q) == Cardinality({i \in DOMAIN proc[q].children : proc[q].children[i] = c})
    IN /\ p \in Existing
       /\ IF proc[p].state = "ZOMBIE" THEN p = init /\ Listed(p) <= 1 ELSE Listed(p) = 1
       /\ \A q \in Existing \ {p} : Listed(q) = 0

\* A pid stays with its process until proc_wait destroys it, zombies included:
\* every existing process has one slot of the pid table, every used slot holds
\* an existing process, and g_all_procs lists them all once.
PidTableSound ==
  /\ \A p \in Existing : Cardinality({n \in DOMAIN g_pid_table : g_pid_table[n] = p}) = 1
  /\ \A p \in Existing \ {init} : g_pid_table[proc[p].pid] = p
  /\ {g_pid_table[n] : n \in DOMAIN g_pid_table} \ {NULL} = Existing
  /\ Range(g_all_procs) = Existing /\ Len(g_all_procs) = Cardinality(Existing)

\* A process other than init that sleeps in wait4() has no child it could reap:
\* the exit of the last one has woken it.
WaiterWoken ==
  \A p \in Procs \ {init} : proc[p].state = "SLEEPING" =>
    \A i \in DOMAIN proc[p].children :
      ~ (LET child == proc[p].children[i]
         IN proc[child].state = "ZOMBIE" /\ WaitsFor(p, proc[p].target, child))

\* A process that has exited stays so until its parent reaps it: no signal,
\* wake-up or schedule() brings it back.
ZombieStaysDead ==
  [][\A p \in Procs \ {idle} :
       proc[p].state = "ZOMBIE" => proc'[p].state \in {"ZOMBIE", "NONE"}]_vars

\* Only wait4() by the parent destroys a process.
OnlyParentReaps ==
  [][\A p \in Existing : proc'[p].state = "NONE" =>
       proc[p].state = "ZOMBIE" /\ proc[p].parent = g_current]_vars

\* The timer lets every ready process run: round robin starves nobody.
ReadyRuns ==
  \A p \in Procs \ {idle} : proc[p].state = "READY" ~> (g_current = p \/ halted)


\* The timer sooner or later interrupts each process that keeps running: none
\* always gives up the CPU just before the tick.
SteadyTicks == \A p \in Procs \ {idle} : SF_vars(g_current = p /\ timer_irq)

\* SIGKILL ends a process that can run and that a tick interrupts, unless a
\* handler's sa_mask blocks it or the process goes to sleep first.
KillTakesEffect ==
  SteadyTicks =>
    \A p \in Procs \ {idle} :
      SIGKILL \in proc[p].sig_pending /\ proc[p].state \in {"READY", "RUNNING"}
        ~> (\/ proc[p].state \in {"ZOMBIE", "NONE", "SLEEPING"}
            \/ SIGKILL \in proc[p].sig_blocked \/ halted)

-----------------------------------------------------------------------------
\* Violated: a process that sleeps in wait4() goes on when a child exits ("wait for a
\* child's exit", proc_wait): the machine is not halted by its wake-up.
WaitSurvivesWakeup == halted => proc[g_current].kpc # "wait4"
=============================================================================
