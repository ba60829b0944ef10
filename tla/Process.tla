------------------------------- MODULE Process -------------------------------
(***************************************************************************)
(* The life of a process: fork, exit, wait, and being traced               *)
(* (kernel/fork.c, kernel/exit.c, kernel/signal.c, kernel/ptrace.c).       *)
(*                                                                         *)
(* Every task has two parents: p_pptr, the one whose wait4 sees it (a      *)
(* tracer takes this place), and p_opptr, the one that made it.  The       *)
(* children of a task are a list of pointers: p_cptr is the youngest,      *)
(* p_osptr the next older sibling, p_ysptr the next younger one.  A dead   *)
(* task is a zombie until a wait4 of its parent has seen it; if that was   *)
(* a tracer the zombie goes back to p_opptr, else it is freed.             *)
(*                                                                         *)
(* The kernel is not preemptive: an action is what a task does up to the   *)
(* next place where it may sleep.  All tasks are of one process group and  *)
(* session and have no signal handlers, so the group checks of do_exit     *)
(* find nothing.  The tasks in Root belong to the superuser, may trace and *)
(* signal all others but not be traced or signalled by them, and run a     *)
(* program that neither forks nor exits, as init does; the others are one  *)
(* user's and do what they like.                                           *)
(***************************************************************************)
EXTENDS Integers, FiniteSets, SequencesExt

CONSTANTS
    Slots,        \* the entries of task[] above init
    Root,         \* those of them that belong to the superuser
    init,         \* task[1]
    NULL,         \* no task
    WaitOptions,  \* the sets of option flags wait4 is called with
    Signals,      \* what sys_kill sends
    ContSignals,  \* what a tracer lets a stopped task go on with; "0": nothing
    ExitSignals   \* the exit_signal a fork or clone asks for

Tasks == Slots \cup {init}
N == Cardinality(Slots)

\* By number: do_signal takes the lowest one first.
SignalOrder == <<"SIGKILL", "SIGCHLD", "SIGCONT", "SIGSTOP">>

ASSUME ProcessAssumption ==
    /\ IsFiniteSet(Slots) /\ Root \subseteq Slots /\ init \notin Slots /\ NULL \notin Tasks
    /\ Signals \subseteq {"SIGKILL", "SIGCONT", "SIGSTOP"}
    /\ ContSignals \subseteq {"0", "SIGKILL", "SIGCHLD"}
    /\ ExitSignals \subseteq {"SIGCHLD", "none"}
    /\ \A o \in WaitOptions : o \subseteq {"WNOHANG", "WUNTRACED", "__WCLONE"}

VARIABLES
    fam,          \* the five pointers of the family of a task
    state,        \* state of a task; "free": task[i] is NULL
    exit_code,    \* what a stopped task has to report, 0 when reported
    exit_signal,
    flags,        \* PF_PTRACED or nothing
    signal,       \* pending signals
    pc,           \* where in the kernel the task is
    arg,          \* the child a fork, or a report, is about; wait4's options
    snatched      \* history: somebody has attached to a task another had in hand

vars == <<fam, state, exit_code, exit_signal, flags, signal, pc, arg, snatched>>

Live(t) == state[t] # "free"
Traced(t) == "PF_PTRACED" \in flags[t]

-----------------------------------------------------------------------------
(* The family.                                                             *)

\* Mutant: the older sibling keeps its pointer to p.
REMOVE_LINKS_single(f, p) ==
    LET o == f.p_osptr[p]
        y == f.p_ysptr[p]
    IN  [f EXCEPT !.p_osptr = IF y = NULL THEN @ ELSE [@ EXCEPT ![y] = o],
                  !.p_cptr  = IF y # NULL THEN @ ELSE [@ EXCEPT ![f.p_pptr[p]] = o]]

\* Take p out of the list of its p_pptr.
REMOVE_LINKS(f, p) ==
    LET o == f.p_osptr[p]
        y == f.p_ysptr[p]
    IN  [f EXCEPT !.p_ysptr = IF o = NULL THEN @ ELSE [@ EXCEPT ![o] = y],
                  !.p_osptr = IF y = NULL THEN @ ELSE [@ EXCEPT ![y] = o],
                  !.p_cptr  = IF y # NULL THEN @ ELSE [@ EXCEPT ![f.p_pptr[p]] = o]]

\* Put p at the head of the list of q.
SET_LINKS(f, p, q) ==
    LET o == f.p_cptr[q]
    IN  [f EXCEPT !.p_pptr[p] = q,
                  !.p_osptr[p] = o,
                  !.p_ysptr = [t \in Tasks |-> IF t = p THEN NULL
                                               ELSE IF t = o THEN p ELSE @[t]],
                  !.p_cptr[q] = p]

\* Mutant: p stays in the list of its old parent as well.
Move_added(f, p, q) == SET_LINKS(f, p, q)

\* From the list of one parent into that of another.
Move(f, p, q) == SET_LINKS(REMOVE_LINKS(f, p), p, q)

\* One round of the loop in do_exit: init takes the youngest child of p.
InitInherits(f, p) ==
    LET c == f.p_cptr[p]
    IN  IF c = NULL THEN f
        ELSE SET_LINKS([f EXCEPT !.p_cptr[p] = f.p_osptr[c]], c, init)

\* All rounds: a task has at most N children.
InheritAll(f, p) ==
    LET after[i \in 0..N] == IF i = 0 THEN f ELSE InitInherits(after[i - 1], p)
    IN  after[N]

\* Mutant: only the tasks that are still children of father.
forget_children(f, father) ==
    [f EXCEPT !.p_opptr = [t \in Tasks |-> IF @[t] = father /\ f.p_pptr[t] = father
                                           THEN init ELSE @[t]]]

forget_original_parent(f, father) ==
    [f EXCEPT !.p_opptr = [t \in Tasks |-> IF @[t] = father THEN init ELSE @[t]]]

\* The list of p: its children, youngest first, then NULL.
Child(p) ==
    LET kid[i \in 1..N + 1] ==
            IF i = 1 THEN fam.p_cptr[p]
            ELSE IF kid[i - 1] = NULL THEN NULL ELSE fam.p_osptr[kid[i - 1]]
    IN  kid

Children(p) == {t \in Slots : Live(t) /\ fam.p_pptr[t] = p}

-----------------------------------------------------------------------------
(* Signals.                                                                *)

generate(sig, t, pending) ==
    IF Traced(t) \/ sig \notin {"SIGCONT", "SIGCHLD"} THEN pending \cup {sig} ELSE pending

\* The pending signals of t after send_sig.
AfterSend(sig, t) ==
    generate(sig, t,
             IF sig \in {"SIGKILL", "SIGCONT"} THEN signal[t] \ {"SIGSTOP"}
             ELSE IF sig = "SIGSTOP" THEN signal[t] \ {"SIGCONT"}
             ELSE signal[t])

\* The exit_signal of each task of ts after notify_parent, told to q.
ToldAs(ts, q) ==
    [t \in Tasks |-> IF t \in ts /\ q = init THEN "SIGCHLD" ELSE exit_signal[t]]

\* The pending signals after q has been told of the tasks ts.
Told(ts, q, es) ==
    IF \E t \in ts : es[t] = "SIGCHLD"
    THEN [signal EXCEPT ![q] = generate("SIGCHLD", q, @)] ELSE signal

\* wake_up_interruptible(&q->wait_chldexit)
Wake(st, q) ==
    IF st[q] = "TASK_INTERRUPTIBLE" THEN [st EXCEPT ![q] = "TASK_RUNNING"] ELSE st

\* Mutant: init is not told.
InitTold_notat(st, dead) == st

\* init is told of the zombies it inherits.
InitTold(st, dead) == IF dead = {} THEN st ELSE Wake(st, init)

Goto(p, l, a) == /\ pc' = [pc EXCEPT ![p] = l]
                 /\ arg' = [arg EXCEPT ![p] = a]

Running(p, l) == pc[p] = l /\ state[p] = "TASK_RUNNING"

\* In user mode: a signal is acted upon before anything else happens there.
InUser(p) == Running(p, "user") /\ signal[p] = {}

\* suser(), or the same user; for init see do_signal and sys_ptrace.
Permitted(p, t) == t \in Slots /\ (p \in Root \/ t \notin Root)

sys_kill(p, t, sig) ==
    /\ InUser(p) /\ Live(t) /\ Permitted(p, t)
    /\ signal' = [signal EXCEPT ![t] = AfterSend(sig, t)]
    /\ IF sig \in {"SIGKILL", "SIGCONT"}
       THEN /\ state' = [state EXCEPT ![t] = IF @ = "TASK_STOPPED" THEN "TASK_RUNNING" ELSE @]
            /\ exit_code' = [exit_code EXCEPT ![t] = "0"]
       ELSE UNCHANGED <<state, exit_code>>
    /\ UNCHANGED <<fam, exit_signal, flags, pc, arg>>

\* p stops in do_signal and tells its parent.
Stop(p, sig, l) ==
    LET es == ToldAs({p}, fam.p_pptr[p])
    IN  /\ exit_code' = [exit_code EXCEPT ![p] = sig]
        /\ state' = Wake([state EXCEPT ![p] = "TASK_STOPPED"], fam.p_pptr[p])
        /\ exit_signal' = es
        /\ signal' = [Told({p}, fam.p_pptr[p], es) EXCEPT ![p] = @ \ {sig}]
        /\ Goto(p, l, NULL)
        /\ UNCHANGED <<fam, flags>>

\* The default action of a signal a task does not stop at.  (One that kills
\* is made pending again before do_exit, where nobody looks at it any more;
\* it is left out.)
Default(p, sig) ==
    /\ Goto(p, IF sig = "SIGKILL" THEN "exit" ELSE "user", NULL)
    /\ UNCHANGED <<fam, state, exit_signal, flags>>

\* One round of the loop of do_signal.
do_signal(p) ==
    /\ Running(p, "user") /\ signal[p] # {}
    /\ LET sig == SelectSeq(SignalOrder, LAMBDA s : s \in signal[p])[1]
       IN  IF Traced(p) /\ sig # "SIGKILL" THEN Stop(p, sig, "traced")
           ELSE IF sig = "SIGSTOP" THEN Stop(p, sig, "stopped")
           ELSE /\ signal' = [signal EXCEPT ![p] = @ \ {sig}]
                /\ Default(p, sig)
                /\ UNCHANGED exit_code

\* The task runs again after it stopped at a signal: its tracer has put
\* another one, or none, into exit_code.
TracedResume(p) ==
    /\ Running(p, "traced")
    /\ exit_code' = [exit_code EXCEPT ![p] = "0"]
    /\ Default(p, exit_code[p])
    /\ UNCHANGED signal

StoppedResume(p) ==
    /\ Running(p, "stopped")
    /\ Goto(p, "user", NULL)
    /\ UNCHANGED <<fam, state, exit_code, exit_signal, flags, signal>>

-----------------------------------------------------------------------------
(* fork.                                                                   *)

\* The new task is in the lists before the memory it needs is allocated.
sys_fork(p, t, es) ==
    /\ InUser(p)
    /\ state[t] = "free"
    /\ state' = [state EXCEPT ![t] = "TASK_UNINTERRUPTIBLE"]
    /\ fam' = SET_LINKS([fam EXCEPT !.p_opptr[t] = p, !.p_cptr[t] = NULL], t, p)
    /\ exit_signal' = [exit_signal EXCEPT ![t] = es]
    /\ flags' = [flags EXCEPT ![t] = {}]
    /\ signal' = [signal EXCEPT ![t] = {}]
    /\ exit_code' = [exit_code EXCEPT ![t] = exit_code[p]]
    /\ Goto(p, "fork", t)

ForkDone(p) ==
    /\ Running(p, "fork")
    /\ state' = [state EXCEPT ![arg[p]] = "TASK_RUNNING"]
    /\ pc' = [pc EXCEPT ![p] = "user", ![arg[p]] = "user"]
    /\ arg' = [arg EXCEPT ![p] = NULL]
    /\ UNCHANGED <<fam, exit_code, exit_signal, flags, signal>>

\* What is left of a task that is freed.
Forgotten(f, t) ==
    LET g == REMOVE_LINKS(f, t)
    IN  [g EXCEPT !.p_pptr[t] = NULL, !.p_opptr[t] = NULL, !.p_cptr[t] = NULL,
                  !.p_ysptr[t] = NULL, !.p_osptr[t] = NULL]

\* The end of a task: task[i] = NULL, REMOVE_LINKS, free_page.
Free(t) ==
    /\ state' = [state EXCEPT ![t] = "free"]
    /\ fam' = Forgotten(fam, t)
    /\ exit_code' = [exit_code EXCEPT ![t] = "0"]
    /\ exit_signal' = [exit_signal EXCEPT ![t] = "none"]
    /\ flags' = [flags EXCEPT ![t] = {}]
    /\ signal' = [signal EXCEPT ![t] = {}]

\* bad_fork_cleanup
ForkFails(p) ==
    /\ Running(p, "fork")
    /\ Free(arg[p])
    /\ Goto(p, "user", NULL)

-----------------------------------------------------------------------------
(* exit.                                                                   *)

sys_exit(p) ==
    /\ InUser(p)
    /\ Goto(p, "exit", NULL)
    /\ UNCHANGED <<fam, state, exit_code, exit_signal, flags, signal>>

\* All files are closed: the children get init for their original parent.
do_exit(p) ==
    /\ Running(p, "exit")
    /\ fam' = forget_original_parent(fam, p)
    /\ Goto(p, "exit_iput", NULL)
    /\ UNCHANGED <<state, exit_code, exit_signal, flags, signal>>

\* The inodes are given back: the task becomes a zombie, tells its parent,
\* and leaves its children to init, which is told of the dead ones.
Zombie(p) ==
    /\ Running(p, "exit_iput")
    /\ LET q    == fam.p_pptr[p]
           dead == {c \in Children(p) : state[c] = "TASK_ZOMBIE"}
           es   == [t \in Tasks |-> IF t \in dead THEN ToldAs(dead, init)[t]
                                    ELSE ToldAs({p}, q)[t]]
           st   == Wake([state EXCEPT ![p] = "TASK_ZOMBIE"], q)
       IN  /\ exit_signal' = es
           /\ signal' = Told({p}, q, es)
           /\ state' = InitTold(st, dead)
           /\ flags' = [t \in Tasks |-> IF t \in Children(p) THEN {} ELSE flags[t]]
           /\ fam' = InheritAll(fam, p)
    /\ exit_code' = [exit_code EXCEPT ![p] = "0"]
    /\ Goto(p, "zombie", NULL)

\* schedule() has returned in do_exit, because somebody made the zombie
\* run: fake_volatile, all over again.
ExitAgain(p) ==
    /\ Running(p, "zombie")
    /\ Goto(p, "exit", NULL)
    /\ UNCHANGED <<fam, state, exit_code, exit_signal, flags, signal>>

-----------------------------------------------------------------------------
(* wait4.                                                                  *)

\* The children this call looks at.
Matches(c, opt) == (exit_signal[c] # "SIGCHLD") = ("__WCLONE" \in opt)

Reportable(c, opt) ==
    /\ Matches(c, opt)
    /\ \/ state[c] = "TASK_ZOMBIE"
       \/ /\ state[c] = "TASK_STOPPED"
          /\ exit_code[c] # "0"
          /\ "WUNTRACED" \in opt \/ Traced(c)

\* The list is searched for the first child there is something to say of.
\* What is said is written to user memory, which may sleep.
Scan(p, opt, sig) ==
    LET kid   == Child(p)
        Hit(i) == kid[i] # NULL /\ Reportable(kid[i], opt)
    IN  /\ signal' = [signal EXCEPT ![p] = sig]
        /\ IF \E i \in 1..N : Hit(i)
           THEN LET i == CHOOSE j \in 1..N : Hit(j) /\ \A k \in 1..j - 1 : ~Hit(k)
                IN  /\ Goto(p, IF state[kid[i]] = "TASK_ZOMBIE" THEN "reap" ELSE "report", kid[i])
                    /\ state' = [state EXCEPT ![p] = "TASK_RUNNING"]
           ELSE IF "WNOHANG" \in opt \/ ~\E i \in 1..N : kid[i] # NULL /\ Matches(kid[i], opt)
           THEN /\ Goto(p, "user", NULL)
                /\ state' = [state EXCEPT ![p] = "TASK_RUNNING"]
           ELSE /\ Goto(p, "wait4", opt)
                /\ state' = [state EXCEPT ![p] = "TASK_INTERRUPTIBLE"]
        /\ UNCHANGED <<fam, exit_code, exit_signal, flags>>

sys_wait4(p, opt) == InUser(p) /\ Scan(p, opt, {})

\* schedule() has returned: a child, or a signal, has woken the task.
WaitResume(p) ==
    /\ pc[p] = "wait4"
    /\ state[p] = "TASK_RUNNING" \/ signal[p] # {}
    /\ LET sig == signal[p] \ {"SIGCHLD"}
       IN  IF sig = {} THEN Scan(p, arg[p], sig)
           ELSE /\ signal' = [signal EXCEPT ![p] = sig]
                /\ state' = [state EXCEPT ![p] = "TASK_RUNNING"]
                /\ Goto(p, "user", NULL)
                /\ UNCHANGED <<fam, exit_code, exit_signal, flags>>

\* The status is written: a stopped child has made its report.
Report(p) ==
    /\ Running(p, "report")
    /\ exit_code' = [exit_code EXCEPT ![arg[p]] = "0"]
    /\ Goto(p, "user", NULL)
    /\ UNCHANGED <<fam, state, exit_signal, flags, signal>>

\* The status is written: the zombie goes back to its original parent, or
\* is freed.
Reap(p) ==
    /\ Running(p, "reap")
    /\ LET c == arg[p]
           q == fam.p_opptr[c]
       IN  IF q # fam.p_pptr[c]
           THEN LET es == ToldAs({c}, q)
                IN  /\ fam' = Move(fam, c, q)
                    /\ exit_signal' = es
                    /\ signal' = Told({c}, q, es)
                    /\ state' = Wake(state, q)
                    /\ UNCHANGED <<exit_code, flags>>
           ELSE Free(c)
    /\ Goto(p, "user", NULL)

-----------------------------------------------------------------------------
(* ptrace.                                                                 *)

PTRACE_TRACEME(p) ==
    /\ InUser(p) /\ ~Traced(p)
    /\ flags' = [flags EXCEPT ![p] = {"PF_PTRACED"}]
    /\ UNCHANGED <<fam, state, exit_code, exit_signal, signal, pc, arg>>

\* Some task sleeps in the middle of making c, or of freeing it: get_free_page
\* in sys_fork, put_fs_long in sys_wait4.
InHand(c) == \E q \in Tasks : pc[q] \in {"fork", "reap"} /\ arg[q] = c

\* Of a task in any state: a zombie, or a child fork has not finished, too.
PTRACE_ATTACH(p, c) ==
    /\ InUser(p) /\ c # p /\ Live(c) /\ Permitted(p, c) /\ ~Traced(c)
    /\ flags' = [flags EXCEPT ![c] = {"PF_PTRACED"}]
    /\ fam' = IF fam.p_pptr[c] = p THEN fam ELSE Move(fam, c, p)
    /\ signal' = [signal EXCEPT ![c] = (@ \ {"SIGCONT"}) \cup {"SIGSTOP"}]
    /\ snatched' = (snatched \/ InHand(c))
    /\ UNCHANGED <<state, exit_code, exit_signal, pc, arg>>

\* What every other request asks first.
MayTrace(p, c) ==
    /\ InUser(p) /\ c \in Slots /\ Live(c) /\ Traced(c) /\ fam.p_pptr[c] = p

PTRACE_CONT(p, c, data) ==
    /\ MayTrace(p, c) /\ state[c] = "TASK_STOPPED"
    /\ exit_code' = [exit_code EXCEPT ![c] = data]
    /\ state' = [state EXCEPT ![c] = "TASK_RUNNING"]
    /\ UNCHANGED <<fam, exit_signal, flags, signal, pc, arg>>

\* Of a task in any state, a zombie included.
PTRACE_KILL(p, c) ==
    /\ MayTrace(p, c)
    /\ exit_code' = [exit_code EXCEPT ![c] = "SIGKILL"]
    /\ state' = [state EXCEPT ![c] = "TASK_RUNNING"]
    /\ UNCHANGED <<fam, exit_signal, flags, signal, pc, arg>>

PTRACE_DETACH(p, c, data) ==
    /\ MayTrace(p, c) /\ state[c] = "TASK_STOPPED"
    /\ flags' = [flags EXCEPT ![c] = {}]
    /\ state' = [state EXCEPT ![c] = "TASK_RUNNING"]
    /\ exit_code' = [exit_code EXCEPT ![c] = data]
    /\ fam' = Move(fam, c, fam.p_opptr[c])
    /\ UNCHANGED <<exit_signal, signal, pc, arg>>

-----------------------------------------------------------------------------
\* The family when init has forked the tasks of the sequence made and nobody
\* else has forked: SET_LINKS puts each at the head of the list.
Offspring(made) ==
    LET Nth(i) == IF i \in DOMAIN made THEN made[i] ELSE NULL
        Beside(d) == [t \in Tasks |-> IF \E i \in DOMAIN made : made[i] = t
                                      THEN Nth((CHOOSE i \in DOMAIN made : made[i] = t) + d)
                                      ELSE NULL]
        parent == [t \in Tasks |-> IF \E i \in DOMAIN made : made[i] = t THEN init ELSE NULL]
    IN  [p_pptr |-> parent, p_opptr |-> parent,
         p_cptr |-> [t \in Tasks |-> IF t = init THEN Nth(Cardinality(DOMAIN made)) ELSE NULL],
         p_ysptr |-> Beside(1), p_osptr |-> Beside(-1)]

\* init has forked one task of a user, and those of the superuser.
Init ==
    \E u \in Slots \ Root :
        /\ fam = Offspring(SetToSeq(Root \cup {u}))
        /\ state = [t \in Tasks |-> IF t \in Root \cup {u, init} THEN "TASK_RUNNING" ELSE "free"]
        /\ exit_code = [t \in Tasks |-> "0"]
        /\ exit_signal = [t \in Tasks |-> IF t \in Root \cup {u} THEN "SIGCHLD" ELSE "none"]
        /\ flags = [t \in Tasks |-> {}]
        /\ signal = [t \in Tasks |-> {}]
        /\ pc = [t \in Tasks |-> "user"]
        /\ arg = [t \in Tasks |-> NULL]
        /\ snatched = FALSE

\* init does nothing but wait.
InitWaits == sys_wait4(init, {})

\* What a task does on its own once it is in the kernel.
Proceed(p) ==
    \/ do_signal(p) \/ TracedResume(p) \/ StoppedResume(p)
    \/ ForkDone(p) \/ ForkFails(p)
    \/ do_exit(p) \/ Zombie(p) \/ ExitAgain(p)
    \/ WaitResume(p) \/ Report(p) \/ Reap(p)

\* What tasks ask of the kernel, attaching to another one apart.
Call ==
    \/ InitWaits
    \/ \E p \in Slots \ Root, t \in Slots, es \in ExitSignals : sys_fork(p, t, es)
    \/ \E p \in Slots \ Root : sys_exit(p) \/ PTRACE_TRACEME(p)
    \/ \E p \in Slots, opt \in WaitOptions : sys_wait4(p, opt)
    \/ \E p, c \in Slots :
          \/ \E sig \in Signals : sys_kill(p, c, sig)
          \/ PTRACE_KILL(p, c)
          \/ \E d \in ContSignals : PTRACE_CONT(p, c, d) \/ PTRACE_DETACH(p, c, d)

Next ==
    \/ \E p \in Tasks : Proceed(p) /\ UNCHANGED snatched
    \/ Call /\ UNCHANGED snatched
    \/ \E p, c \in Slots : PTRACE_ATTACH(p, c)

Spec == Init /\ [][Next]_vars

-----------------------------------------------------------------------------
(* Properties.                                                             *)
(*                                                                         *)
(* PTRACE_ATTACH looks at neither the state of the task nor what others    *)
(* are doing with it.  Attaching to a task that a fork or a wait4 has in   *)
(* hand is the one thing the rest of the code does not stand (see          *)
(* ReleaseFinds): the other properties are stated up to there, and say     *)
(* that nothing else breaks them, an attach to any other task, dead or     *)
(* alive, included.                                                        *)

Here == {t \in Slots : Live(t)}

\* What audit_ptree verifies: the pointers of the family are to tasks, and
\* the sibling lists are the tree that p_cptr and p_pptr define.  Forking,
\* dying, tracing, detaching and handing back a zombie all relink them.
AuditPtree ==
    snatched \/ \A t \in Here :
        LET o == fam.p_osptr[t]
            y == fam.p_ysptr[t]
            c == fam.p_cptr[t]
            list == Child(fam.p_pptr[t])
        IN  /\ \A q \in {fam.p_pptr[t], c, y, o} \ {NULL} : Live(q) /\ q # t
            /\ o # NULL => fam.p_pptr[o] = fam.p_pptr[t] /\ fam.p_ysptr[o] = t
            /\ y # NULL => fam.p_pptr[y] = fam.p_pptr[t] /\ fam.p_osptr[y] = t
            /\ c # NULL => fam.p_pptr[c] = t /\ fam.p_ysptr[c] = NULL
            /\ \E i \in 1..N : list[i] = t

\* Both parents of a task exist and can still wait for it: do_exit leaves
\* no task with a dead parent or original parent, in particular none that
\* a later wait4 would hand its zombie back to.
ParentsAlive ==
    \A t \in Here :
        \A q \in {fam.p_pptr[t], fam.p_opptr[t]} :
            q # NULL /\ Live(q) /\ pc[q] # "zombie"

\* init waits for ordinary children only, and every zombie it gets is one,
\* whatever exit_signal its maker asked for: none is left unreaped.
InitCanReap ==
    \A c \in Children(init) : state[c] = "TASK_ZOMBIE" => exit_signal[c] = "SIGCHLD"

\* Nobody is orphaned for good: both of these.
OrphansAdopted == snatched \/ (ParentsAlive /\ InitCanReap)

\* A task that sleeps in wait4 has no child it should report: whoever dies,
\* stops, or hands over a zombie has woken the one that waits.
NoLostWakeup ==
    snatched \/ \A p \in Tasks :
        pc[p] = "wait4" /\ state[p] = "TASK_INTERRUPTIBLE" /\ signal[p] = {}
        => \A c \in Children(p) : ~Reportable(c, arg[p])

\* The child a wait4 is about to report, or free, while it sleeps writing
\* the status is still a task, and a zombie to be freed is dead; the child
\* of a fork that sleeps for memory has not gone.  Zombies may be attached
\* to, killed again and handed back meanwhile, as long as it is not this one.
NoUseAfterFree ==
    snatched \/ \A p \in Tasks :
        /\ pc[p] \in {"reap", "report", "fork"} => Live(arg[p])
        /\ pc[p] = "reap" => state[arg[p]] = "TASK_ZOMBIE"

\* What release takes for granted, and panics without ("trying to release
\* non-existent task"): the zombie a wait4 goes on with is still a task.  A
\* tracer that attaches to it while the status is being written breaks this:
\* it gets the zombie from its own wait4 as well, and both parents free it.
ReleaseFinds ==
    \A p \in Tasks : pc[p] = "reap" => Live(arg[p])

==============================================================================
