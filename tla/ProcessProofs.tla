---------------------------- MODULE ProcessProofs ----------------------------
(***************************************************************************)
(* Proofs about Process for any number of tasks: the family is a tree of   *)
(* sound lists, nobody is orphaned, no wait4 misses a child it should      *)
(* report, and none uses a task that is gone.                              *)
(***************************************************************************)
EXTENDS Process, FiniteSetTheorems, WellFoundedInduction, TLAPS

-----------------------------------------------------------------------------
(* The inductive invariant.                                                *)

States == {"free", "TASK_RUNNING", "TASK_INTERRUPTIBLE", "TASK_UNINTERRUPTIBLE",
           "TASK_STOPPED", "TASK_ZOMBIE"}
Places == {"user", "traced", "stopped", "fork", "exit", "exit_iput", "zombie", "wait4",
           "report", "reap"}

Links == [Tasks -> Tasks \cup {NULL}]
Families == [p_pptr : Links, p_opptr : Links, p_cptr : Links, p_ysptr : Links, p_osptr : Links]

TypeOK ==
    /\ fam \in Families
    /\ state \in [Tasks -> States]
    /\ exit_signal \in [Tasks -> {"SIGCHLD", "none"}]
    /\ flags \in [Tasks -> SUBSET {"PF_PTRACED"}]
    /\ pc \in [Tasks -> Places]
    /\ DOMAIN exit_code = Tasks /\ DOMAIN signal = Tasks /\ DOMAIN arg = Tasks

\* The places in the kernel a task can be at in each state.
Control ==
    \A t \in Tasks :
        /\ state[t] \in {"free", "TASK_UNINTERRUPTIBLE"} =>
              pc[t] \in {"user", "zombie"} /\ ~Traced(t)
        /\ state[t] = "TASK_INTERRUPTIBLE" => pc[t] = "wait4"
        /\ state[t] = "TASK_STOPPED" => pc[t] \in {"traced", "stopped"}
        /\ state[t] = "TASK_ZOMBIE" => pc[t] = "zombie"

\* init only waits; nobody signals or traces it.
InitOnlyWaits ==
    /\ state[init] \in {"TASK_RUNNING", "TASK_INTERRUPTIBLE"}
    /\ pc[init] \in {"user", "wait4", "report", "reap"}
    /\ ~Traced(init) /\ signal[init] = {}
    /\ pc[init] = "wait4" => arg[init] = {}

Alive == {t \in Slots : Live(t)}

\* The list of each parent, by the place of a task in it: 1 for the oldest.
\* A is the set of tasks that are in a list.
Older(f, A, pos) ==
    /\ \A t \in A :
          /\ f.p_pptr[t] \in Tasks /\ f.p_cptr[f.p_pptr[t]] \in A
          /\ pos[t] >= 1 /\ pos[t] <= pos[f.p_cptr[f.p_pptr[t]]]
          /\ pos[t] = 1 => f.p_osptr[t] = NULL
          /\ pos[t] > 1 => /\ f.p_osptr[t] \in A
                           /\ f.p_pptr[f.p_osptr[t]] = f.p_pptr[t]
                           /\ pos[f.p_osptr[t]] = pos[t] - 1
    /\ \A q \in Tasks : f.p_cptr[q] # NULL => f.p_cptr[q] \in A /\ f.p_pptr[f.p_cptr[q]] = q
    /\ \A s, t \in A : f.p_pptr[s] = f.p_pptr[t] /\ pos[s] = pos[t] => s = t

\* The way back, for the tasks of B.
Younger(f, A, B) ==
    \A t \in B :
        /\ f.p_cptr[f.p_pptr[t]] = t => f.p_ysptr[t] = NULL
        /\ f.p_cptr[f.p_pptr[t]] # t => f.p_ysptr[t] \in A /\ f.p_osptr[f.p_ysptr[t]] = t

Tree(f, A) == \E pos \in [Tasks -> Nat] : Older(f, A, pos) /\ Younger(f, A, A)

\* Who can be a parent: a task that has not died.
Able(q) ==
    state[q] \in {"TASK_RUNNING", "TASK_INTERRUPTIBLE", "TASK_STOPPED"} /\ pc[q] # "zombie"

Parents ==
    \A t \in Alive :
        /\ fam.p_pptr[t] \in Tasks /\ fam.p_pptr[t] # t /\ Able(fam.p_pptr[t])
        /\ fam.p_opptr[t] \in Tasks /\ fam.p_opptr[t] # t /\ Able(fam.p_opptr[t])
        /\ pc[fam.p_opptr[t]] # "exit_iput"

\* A task is in the list of somebody else than the one that made it, or
\* init, only if it is traced, or if that one is dying.
Fostered ==
    \A t \in Alive :
        fam.p_pptr[t] \notin {fam.p_opptr[t], init}
        => Traced(t) \/ pc[fam.p_pptr[t]] = "exit_iput"

\* What a task that sleeps in fork or wait4 has in hand.
Forking ==
    \A p \in Tasks : pc[p] = "fork" =>
        arg[p] \in Slots /\ state[arg[p]] = "TASK_UNINTERRUPTIBLE" /\ fam.p_pptr[arg[p]] = p
Reaping ==
    \A p \in Tasks : pc[p] = "reap" =>
        arg[p] \in Slots /\ state[arg[p]] = "TASK_ZOMBIE" /\ fam.p_pptr[arg[p]] = p
Reporting ==
    \A p \in Tasks : pc[p] = "report" =>
        /\ arg[p] \in Alive
        /\ fam.p_opptr[arg[p]] = p \/ (fam.p_pptr[arg[p]] = p /\ Traced(arg[p]))

\* A signal that is pending changes nothing: no sleeper has a child to report.
Waiting ==
    \A p \in Tasks :
        pc[p] = "wait4" /\ state[p] = "TASK_INTERRUPTIBLE"
        => \A c \in Children(p) : ~Reportable(c, arg[p])

IInv == /\ TypeOK /\ Control /\ InitOnlyWaits
        /\ Tree(fam, Alive)
        /\ Parents /\ Fostered /\ Forking /\ Reaping /\ Reporting
        /\ Waiting /\ InitCanReap


-----------------------------------------------------------------------------
(* What the operations on the family do to each pointer.                   *)

LEMMA ConstantsTypes ==
    /\ init \in Tasks /\ init \notin Slots /\ NULL \notin Tasks /\ NULL \notin Slots
    /\ Slots \subseteq Tasks /\ IsFiniteSet(Slots) /\ N \in Nat /\ Root \subseteq Slots
  BY ProcessAssumption, FS_CardinalityType DEF Tasks, N

\* Every pointer after REMOVE_LINKS.
Removed(f, g, p) ==
    /\ g \in Families /\ g.p_pptr = f.p_pptr /\ g.p_opptr = f.p_opptr
    /\ \A t \in Tasks :
          /\ g.p_ysptr[t] = IF t = f.p_osptr[p] THEN f.p_ysptr[p] ELSE f.p_ysptr[t]
          /\ g.p_osptr[t] = IF t = f.p_ysptr[p] THEN f.p_osptr[p] ELSE f.p_osptr[t]
          /\ g.p_cptr[t]  = IF f.p_ysptr[p] = NULL /\ t = f.p_pptr[p]
                            THEN f.p_osptr[p] ELSE f.p_cptr[t]

LEMMA RemoveLinks ==
    ASSUME NEW f \in Families, NEW p \in Tasks
    PROVE  Removed(f, REMOVE_LINKS(f, p), p)
<1>1. f.p_osptr[p] \in Tasks \cup {NULL} /\ f.p_ysptr[p] \in Tasks \cup {NULL}
  BY DEF Families, Links
<1> DEFINE o == f.p_osptr[p]
           y == f.p_ysptr[p]
           ys == IF o = NULL THEN f.p_ysptr ELSE [f.p_ysptr EXCEPT ![o] = y]
           os == IF y = NULL THEN f.p_osptr ELSE [f.p_osptr EXCEPT ![y] = o]
           cs == IF y # NULL THEN f.p_cptr ELSE [f.p_cptr EXCEPT ![f.p_pptr[p]] = o]
<1>2. /\ ys \in Links
      /\ \A t \in Tasks : ys[t] = IF t = o THEN y ELSE f.p_ysptr[t]
  BY <1>1, ConstantsTypes DEF Families, Links
<1>3. /\ os \in Links
      /\ \A t \in Tasks : os[t] = IF t = y THEN o ELSE f.p_osptr[t]
  BY <1>1, ConstantsTypes DEF Families, Links
<1>4. /\ cs \in Links
      /\ \A t \in Tasks : cs[t] = IF y = NULL /\ t = f.p_pptr[p] THEN o ELSE f.p_cptr[t]
  BY <1>1, ConstantsTypes DEF Families, Links
<1>5. PICK g : g = REMOVE_LINKS(f, p)
  OBVIOUS
<1>6. g = [f EXCEPT !.p_ysptr = ys, !.p_osptr = os, !.p_cptr = cs]
  BY <1>5 DEF REMOVE_LINKS
<1> HIDE DEF ys, os, cs
<1>7. /\ g \in Families /\ g.p_pptr = f.p_pptr /\ g.p_opptr = f.p_opptr
      /\ g.p_ysptr = ys /\ g.p_osptr = os /\ g.p_cptr = cs
  BY <1>2, <1>3, <1>4, <1>6 DEF Families
<1>8. Removed(f, g, p)
  BY <1>2, <1>3, <1>4, <1>7 DEF Removed
<1> QED
  BY <1>5, <1>8

\* Every pointer after SET_LINKS.
SetAtHead(f, g, p, q) ==
    /\ g \in Families /\ g.p_opptr = f.p_opptr
    /\ \A t \in Tasks :
          /\ g.p_pptr[t]  = IF t = p THEN q ELSE f.p_pptr[t]
          /\ g.p_osptr[t] = IF t = p THEN f.p_cptr[q] ELSE f.p_osptr[t]
          /\ g.p_ysptr[t] = IF t = p THEN NULL ELSE IF t = f.p_cptr[q] THEN p ELSE f.p_ysptr[t]
          /\ g.p_cptr[t]  = IF t = q THEN p ELSE f.p_cptr[t]

LEMMA SetLinks ==
    ASSUME NEW f \in Families, NEW p \in Tasks, NEW q \in Tasks
    PROVE  SetAtHead(f, SET_LINKS(f, p, q), p, q)
<1> DEFINE o == f.p_cptr[q]
           pp == [f.p_pptr EXCEPT ![p] = q]
           os == [f.p_osptr EXCEPT ![p] = o]
           ys == [t \in Tasks |-> IF t = p THEN NULL ELSE IF t = o THEN p ELSE f.p_ysptr[t]]
           cs == [f.p_cptr EXCEPT ![q] = p]
<1>1. /\ pp \in Links /\ os \in Links /\ cs \in Links
      /\ \A t \in Tasks : /\ pp[t] = IF t = p THEN q ELSE f.p_pptr[t]
                          /\ os[t] = IF t = p THEN o ELSE f.p_osptr[t]
                          /\ cs[t] = IF t = q THEN p ELSE f.p_cptr[t]
  BY DEF Families, Links
<1>2. ys \in Links
  BY DEF Families, Links
<1>3. PICK g : g = SET_LINKS(f, p, q)
  OBVIOUS
<1>4. g = [f EXCEPT !.p_pptr = pp, !.p_osptr = os, !.p_ysptr = ys, !.p_cptr = cs]
  BY <1>3 DEF SET_LINKS, Families, Links
<1>5. \A t \in Tasks : ys[t] = IF t = p THEN NULL ELSE IF t = o THEN p ELSE f.p_ysptr[t]
  OBVIOUS
<1> HIDE DEF pp, os, ys, cs
<1>6. /\ g \in Families /\ g.p_opptr = f.p_opptr /\ g.p_pptr = pp
      /\ g.p_ysptr = ys /\ g.p_osptr = os /\ g.p_cptr = cs
  BY <1>1, <1>2, <1>4 DEF Families
<1>7. SetAtHead(f, g, p, q)
  BY <1>1, <1>5, <1>6 DEF SetAtHead
<1> QED
  BY <1>3, <1>7

-----------------------------------------------------------------------------
(* The lists stay lists.                                                   *)

\* A task taken out: the younger ones move down one place.
LEMMA RemoveTree ==
    ASSUME NEW f \in Families, NEW g, NEW A \in SUBSET Slots, NEW p \in A,
           Tree(f, A), Removed(f, g, p)
    PROVE  Tree(g, A \ {p})
<1>0. PICK pos \in [Tasks -> Nat] : Older(f, A, pos) /\ Younger(f, A, A)
  BY DEF Tree
<1> DEFINE o == f.p_osptr[p]
           y == f.p_ysptr[p]
           q == f.p_pptr[p]
           B == A \ {p}
           Up(t) == f.p_pptr[t] = q /\ pos[t] > pos[p]
           new == [t \in Tasks |-> IF Up(t) THEN pos[t] - 1 ELSE pos[t]]
<1>1. /\ A \subseteq Tasks /\ p \in Tasks /\ NULL \notin A
      /\ \A t \in A : pos[t] \in Nat
  BY ConstantsTypes
<1>2. \A t \in A : f.p_osptr[t] \in A => /\ f.p_pptr[f.p_osptr[t]] = f.p_pptr[t]
                                         /\ pos[f.p_osptr[t]] = pos[t] - 1
                                         /\ pos[t] > 1
  BY <1>0, <1>1 DEF Older
<1>3. IF f.p_cptr[q] = p THEN y = NULL ELSE y \in A /\ f.p_osptr[y] = p
  BY <1>0 DEF Younger
<1>4. \A t \in A : f.p_osptr[t] = p => t = y
  BY <1>0, <1>1, <1>2, <1>3 DEF Older
<1>5. /\ q \in Tasks /\ f.p_cptr[q] \in A /\ pos[p] <= pos[f.p_cptr[q]] /\ pos[p] >= 1
      /\ pos[p] = 1 => o = NULL
      /\ pos[p] > 1 => o \in A /\ f.p_pptr[o] = q /\ pos[o] = pos[p] - 1
  BY <1>0 DEF Older
<1>6. /\ new \in [Tasks -> Nat]
      /\ \A t \in A : new[t] = IF Up(t) THEN pos[t] - 1 ELSE pos[t]
  BY <1>1
<1>7. /\ \A t \in A : g.p_pptr[t] = f.p_pptr[t]
      /\ \A t \in A : /\ g.p_ysptr[t] = IF t = o THEN y ELSE f.p_ysptr[t]
                      /\ g.p_osptr[t] = IF t = y THEN o ELSE f.p_osptr[t]
      /\ \A t \in Tasks : g.p_cptr[t] = IF y = NULL /\ t = q THEN o ELSE f.p_cptr[t]
  BY <1>1 DEF Removed
<1>8. \A t \in B : f.p_pptr[t] = q => pos[t] # pos[p]
  BY <1>0 DEF Older
<1> HIDE DEF new
<1>9. ASSUME NEW t \in B
      PROVE  /\ g.p_pptr[t] \in Tasks /\ g.p_cptr[g.p_pptr[t]] \in B
             /\ new[t] >= 1 /\ new[t] <= new[g.p_cptr[g.p_pptr[t]]]
  <2>1. f.p_pptr[t] \in Tasks /\ f.p_cptr[f.p_pptr[t]] \in A /\ pos[t] >= 1
        /\ pos[t] <= pos[f.p_cptr[f.p_pptr[t]]] /\ f.p_pptr[f.p_cptr[f.p_pptr[t]]] = f.p_pptr[t]
    BY <1>0, <1>1 DEF Older
  <2>2. CASE y = NULL /\ f.p_pptr[t] = q
    <3>1. f.p_cptr[q] = p /\ pos[t] < pos[p]
      BY <1>1, <1>3, <1>8, <2>1, <2>2
    <3>2. o \in A /\ pos[o] = pos[p] - 1 /\ pos[p] > 1 /\ o # p
      BY <1>1, <1>5, <2>1, <3>1
    <3> QED
      BY <1>1, <1>6, <1>7, <2>1, <2>2, <3>1, <3>2
  <2>3. CASE ~(y = NULL /\ f.p_pptr[t] = q)
    <3>1. g.p_cptr[g.p_pptr[t]] = f.p_cptr[f.p_pptr[t]]
      BY <1>7, <2>1, <2>3
    <3>2. f.p_cptr[f.p_pptr[t]] # p
      BY <1>3, <2>1, <2>3
    <3>3. Up(t) => Up(f.p_cptr[f.p_pptr[t]])
      BY <1>1, <2>1
    <3>4. f.p_pptr[t] = q => Up(f.p_cptr[f.p_pptr[t]])
      BY <1>1, <1>5, <1>8, <2>1, <3>2
    <3>5. new[t] >= 1
      BY <1>1, <1>5, <1>6, <2>1
    <3>6. new[t] <= new[f.p_cptr[f.p_pptr[t]]]
      <4>1. CASE f.p_pptr[t] = q
        BY <1>1, <1>6, <1>8, <2>1, <3>3, <3>4, <4>1
      <4>2. CASE f.p_pptr[t] # q
        BY <1>1, <1>6, <2>1, <4>2
      <4> QED
        BY <4>1, <4>2
    <3> QED
      BY <1>7, <2>1, <3>1, <3>2, <3>5, <3>6
  <2> QED
    BY <2>2, <2>3
<1>10. ASSUME NEW t \in B, new[t] = 1
       PROVE  g.p_osptr[t] = NULL
  <2>1. CASE Up(t)
    <3>1. pos[t] = 2 /\ pos[p] = 1
      BY <1>1, <1>5, <1>6, <1>10, <2>1
    <3>2. f.p_osptr[t] \in A /\ f.p_pptr[f.p_osptr[t]] = q /\ pos[f.p_osptr[t]] = 1
      BY <1>0, <1>1, <2>1, <3>1 DEF Older
    <3>3. f.p_osptr[t] = p
      BY <1>0, <3>1, <3>2 DEF Older
    <3> QED
      BY <1>4, <1>5, <1>7, <3>1, <3>3
  <2>2. CASE ~Up(t)
    <3>1. pos[t] = 1 /\ f.p_osptr[t] = NULL
      BY <1>0, <1>1, <1>6, <1>10, <2>2 DEF Older
    <3>2. t # y
      BY <1>1, <1>3, <3>1
    <3> QED
      BY <1>7, <3>1, <3>2
  <2> QED
    BY <2>1, <2>2
<1>11. ASSUME NEW t \in B, new[t] > 1
       PROVE  /\ g.p_osptr[t] \in B
              /\ g.p_pptr[g.p_osptr[t]] = g.p_pptr[t]
              /\ new[g.p_osptr[t]] = new[t] - 1
  <2>1. pos[t] > 1
    BY <1>1, <1>6, <1>11
  <2>2. f.p_osptr[t] \in A /\ f.p_pptr[f.p_osptr[t]] = f.p_pptr[t] /\ pos[f.p_osptr[t]] = pos[t] - 1
    BY <1>0, <2>1 DEF Older
  <2>3. CASE t = y
    <3>1. f.p_osptr[t] = p /\ Up(t) /\ new[t] = pos[p] /\ f.p_pptr[t] = q
      BY <1>1, <1>3, <1>6, <2>2, <2>3
    <3>2. o \in A /\ f.p_pptr[o] = q /\ pos[o] = pos[p] - 1 /\ o # p
      BY <1>1, <1>5, <1>11, <3>1
    <3> QED
      BY <1>1, <1>6, <1>7, <2>3, <3>1, <3>2
  <2>4. CASE t # y
    <3>1. f.p_osptr[t] # p
      BY <1>4, <2>4
    <3>2. f.p_pptr[t] = q => (Up(t) <=> Up(f.p_osptr[t]))
      BY <1>1, <1>8, <2>2, <3>1
    <3> QED
      BY <1>1, <1>6, <1>7, <2>2, <2>4, <3>1, <3>2
  <2> QED
    BY <2>3, <2>4
<1>12. ASSUME NEW r \in Tasks, g.p_cptr[r] # NULL
       PROVE  g.p_cptr[r] \in B /\ g.p_pptr[g.p_cptr[r]] = r
  <2>1. CASE y = NULL /\ r = q
    <3>1. o \in A /\ f.p_pptr[o] = q /\ pos[o] = pos[p] - 1
      BY <1>1, <1>5, <1>7, <1>12, <2>1
    <3> QED
      BY <1>1, <1>7, <2>1, <3>1
  <2>2. CASE ~(y = NULL /\ r = q)
    <3>1. f.p_cptr[r] \in A /\ f.p_pptr[f.p_cptr[r]] = r
      BY <1>0, <1>7, <1>12, <2>2 DEF Older
    <3>2. f.p_cptr[r] # p
      BY <1>3, <2>2, <3>1
    <3> QED
      BY <1>7, <2>2, <3>1, <3>2
  <2> QED
    BY <2>1, <2>2
<1>13. ASSUME NEW s \in B, NEW t \in B, g.p_pptr[s] = g.p_pptr[t], new[s] = new[t]
       PROVE  s = t
  <2>1. f.p_pptr[s] = f.p_pptr[t] /\ s \in A /\ t \in A
    BY <1>7, <1>13
  <2>2. Up(s) <=> Up(t)
    BY <1>1, <1>6, <1>8, <1>13, <2>1
  <2>3. pos[s] = pos[t]
    BY <1>1, <1>6, <1>13, <2>1, <2>2
  <2> QED
    BY <1>0, <2>1, <2>3 DEF Older
<1>14. Older(g, B, new)
  BY <1>9, <1>10, <1>11, <1>12, <1>13 DEF Older
<1>15. ASSUME NEW t \in B
       PROVE  /\ g.p_cptr[g.p_pptr[t]] = t => g.p_ysptr[t] = NULL
              /\ g.p_cptr[g.p_pptr[t]] # t => g.p_ysptr[t] \in B /\ g.p_osptr[g.p_ysptr[t]] = t
  <2>1. /\ f.p_cptr[f.p_pptr[t]] = t => f.p_ysptr[t] = NULL
        /\ f.p_cptr[f.p_pptr[t]] # t => f.p_ysptr[t] \in A /\ f.p_osptr[f.p_ysptr[t]] = t
    BY <1>0 DEF Younger
  <2>2. CASE t = o
    <3>1. f.p_pptr[t] = q /\ pos[t] = pos[p] - 1
      BY <1>1, <1>2, <2>2
    <3>2. g.p_ysptr[t] = y
      BY <1>7, <2>2
    <3>3. CASE y = NULL
      BY <1>5, <1>7, <2>2, <3>1, <3>2, <3>3
    <3>4. CASE y # NULL
      <4>1. y \in A /\ f.p_osptr[y] = p /\ f.p_cptr[q] # p /\ y # p
        BY <1>1, <1>2, <1>3, <3>4
      <4>2. f.p_cptr[q] # t
        BY <1>1, <1>5, <3>1
      <4> QED
        BY <1>5, <1>7, <2>2, <3>1, <3>2, <3>4, <4>1, <4>2
    <3> QED
      BY <3>3, <3>4
  <2>3. CASE t # o
    <3>1. g.p_ysptr[t] = f.p_ysptr[t]
      BY <1>7, <2>3
    <3>2. f.p_ysptr[t] \in A => f.p_ysptr[t] # p \/ f.p_cptr[f.p_pptr[t]] = t
      BY <2>1, <2>3
    <3>3. f.p_pptr[t] \in Tasks
      BY <1>0 DEF Older
    <3>4. CASE y = NULL /\ f.p_pptr[t] = q
      <4>1. f.p_cptr[q] = p /\ g.p_cptr[g.p_pptr[t]] = o
        BY <1>1, <1>3, <1>7, <3>3, <3>4
      <4>2. f.p_ysptr[t] \in A /\ f.p_osptr[f.p_ysptr[t]] = t /\ f.p_ysptr[t] # p
        BY <2>1, <2>3, <3>4, <4>1
      <4> QED
        BY <1>1, <1>7, <2>3, <3>1, <3>4, <4>1, <4>2
    <3>5. CASE ~(y = NULL /\ f.p_pptr[t] = q)
      <4>1. g.p_cptr[g.p_pptr[t]] = f.p_cptr[f.p_pptr[t]]
        BY <1>7, <3>3, <3>5
      <4>2. CASE f.p_cptr[f.p_pptr[t]] = t
        BY <2>1, <3>1, <4>1, <4>2
      <4>3. CASE f.p_cptr[f.p_pptr[t]] # t
        <5>1. f.p_ysptr[t] \in A /\ f.p_osptr[f.p_ysptr[t]] = t /\ f.p_ysptr[t] # p
          BY <2>1, <2>3, <4>3
        <5>2. f.p_ysptr[t] # y
          BY <1>1, <1>3, <5>1
        <5> QED
          BY <1>7, <3>1, <4>1, <4>3, <5>1, <5>2
      <4> QED
        BY <4>2, <4>3
    <3> QED
      BY <3>4, <3>5
  <2> QED
    BY <2>2, <2>3
<1>16. Younger(g, B, B)
  BY <1>15 DEF Younger
<1> QED
  BY <1>6, <1>14, <1>16 DEF Tree

\* The places of the tasks of B are still what they were.
OlderStill(g, A, B, pos) ==
    \E new \in [Tasks -> Nat] : Older(g, A, new) /\ \A t \in B : new[t] = pos[t]

\* A task put at the head of the list of q.
LEMMA SetOlder ==
    ASSUME NEW f \in Families, NEW g, NEW A \in SUBSET Slots, NEW p \in Slots \ A, NEW q \in Tasks,
           NEW pos \in [Tasks -> Nat], Older(f, A, pos), SetAtHead(f, g, p, q)
    PROVE  OlderStill(g, A \cup {p}, A, pos)
<1> DEFINE c == f.p_cptr[q]
           top == IF c = NULL THEN 1 ELSE pos[c] + 1
           new == [t \in Tasks |-> IF t = p THEN top ELSE pos[t]]
           B == A \cup {p}
<1>1. /\ A \subseteq Tasks /\ p \in Tasks /\ p \notin A /\ NULL \notin A /\ p # NULL /\ B \subseteq Tasks
      /\ \A t \in A : pos[t] \in Nat
  BY ConstantsTypes
<1>2. c # NULL => c \in A /\ f.p_pptr[c] = q /\ pos[c] >= 1
  BY <1>1 DEF Older
<1>3. top \in Nat /\ top >= 1
  BY <1>1, <1>2
<1>4. /\ new \in [Tasks -> Nat] /\ new[p] = top
      /\ \A t \in A : new[t] = pos[t]
  BY <1>1, <1>3
<1>5. /\ g.p_pptr[p] = q /\ g.p_osptr[p] = c /\ g.p_cptr[q] = p
      /\ \A t \in A : g.p_pptr[t] = f.p_pptr[t] /\ g.p_osptr[t] = f.p_osptr[t]
      /\ \A t \in Tasks : t # q => g.p_cptr[t] = f.p_cptr[t]
  BY <1>1 DEF SetAtHead
<1>6. \A t \in A : f.p_pptr[t] = q => c \in A /\ pos[t] <= pos[c] /\ c # NULL
  BY <1>1 DEF Older
<1> HIDE DEF new
<1>7. ASSUME NEW t \in B
      PROVE  /\ g.p_pptr[t] \in Tasks /\ g.p_cptr[g.p_pptr[t]] \in B
             /\ new[t] >= 1 /\ new[t] <= new[g.p_cptr[g.p_pptr[t]]]
  <2>1. CASE t = p
    BY <1>3, <1>4, <1>5, <2>1
  <2>2. CASE t \in A
    <3>1. f.p_pptr[t] \in Tasks /\ f.p_cptr[f.p_pptr[t]] \in A /\ pos[t] >= 1
          /\ pos[t] <= pos[f.p_cptr[f.p_pptr[t]]]
      BY <2>2 DEF Older
    <3>2. CASE f.p_pptr[t] = q
      <4>1. pos[t] <= top
        BY <1>1, <1>6, <2>2, <3>2
      <4> QED
        BY <1>4, <1>5, <2>2, <3>1, <3>2, <4>1
    <3>3. CASE f.p_pptr[t] # q
      BY <1>4, <1>5, <2>2, <3>1, <3>3
    <3> QED
      BY <3>2, <3>3
  <2> QED
    BY <2>1, <2>2
<1>8. ASSUME NEW t \in B
      PROVE  /\ new[t] = 1 => g.p_osptr[t] = NULL
             /\ new[t] > 1 => /\ g.p_osptr[t] \in B
                              /\ g.p_pptr[g.p_osptr[t]] = g.p_pptr[t]
                              /\ new[g.p_osptr[t]] = new[t] - 1
  <2>1. CASE t = p
    BY <1>1, <1>2, <1>4, <1>5, <2>1
  <2>2. CASE t \in A
    <3>1. /\ pos[t] = 1 => f.p_osptr[t] = NULL
          /\ pos[t] > 1 => f.p_osptr[t] \in A /\ f.p_pptr[f.p_osptr[t]] = f.p_pptr[t]
                           /\ pos[f.p_osptr[t]] = pos[t] - 1
      BY <2>2 DEF Older
    <3> QED
      BY <1>4, <1>5, <2>2, <3>1
  <2> QED
    BY <2>1, <2>2
<1>9. ASSUME NEW r \in Tasks, g.p_cptr[r] # NULL
      PROVE  g.p_cptr[r] \in B /\ g.p_pptr[g.p_cptr[r]] = r
  BY <1>5, <1>9 DEF Older
<1>10. ASSUME NEW s \in B, NEW t \in B, g.p_pptr[s] = g.p_pptr[t], new[s] = new[t]
       PROVE  s = t
  <2>1. ASSUME NEW u \in A, f.p_pptr[u] = q PROVE pos[u] # top
    BY <1>1, <1>6, <2>1
  <2> QED
    BY <1>4, <1>5, <1>10, <2>1 DEF Older
<1>11. Older(g, B, new)
  BY <1>7, <1>8, <1>9, <1>10 DEF Older
<1> QED
  BY <1>4, <1>11 DEF OlderStill

LEMMA SetYounger ==
    ASSUME NEW f \in Families, NEW g, NEW A \in SUBSET Slots, NEW p \in Slots \ A, NEW q \in Tasks,
           NEW pos \in [Tasks -> Nat], Older(f, A, pos), SetAtHead(f, g, p, q),
           NEW B \in SUBSET A, Younger(f, A, B)
    PROVE  Younger(g, A \cup {p}, B \cup {p})
<1>1. A \subseteq Tasks /\ p \in Tasks /\ NULL \notin A
  BY ConstantsTypes
<1>2. SUFFICES ASSUME NEW t \in B \cup {p}
               PROVE  /\ g.p_cptr[g.p_pptr[t]] = t => g.p_ysptr[t] = NULL
                      /\ g.p_cptr[g.p_pptr[t]] # t =>
                            g.p_ysptr[t] \in A \cup {p} /\ g.p_osptr[g.p_ysptr[t]] = t
  BY DEF Younger
<1>3. CASE t = p
  BY <1>1, <1>3 DEF SetAtHead
<1>4. CASE t \in B
  <2>1. /\ t \in A /\ t # p /\ f.p_pptr[t] \in Tasks
        /\ f.p_cptr[f.p_pptr[t]] = t => f.p_ysptr[t] = NULL
        /\ f.p_cptr[f.p_pptr[t]] # t => f.p_ysptr[t] \in A /\ f.p_osptr[f.p_ysptr[t]] = t
    BY <1>4 DEF Younger, Older
  <2>2. CASE t = f.p_cptr[q]
    <3>1. f.p_pptr[t] = q
      BY <1>1, <2>1, <2>2 DEF Older
    <3> QED
      BY <1>1, <2>1, <2>2, <3>1 DEF SetAtHead
  <2>3. CASE t # f.p_cptr[q]
    <3>1. g.p_ysptr[t] = f.p_ysptr[t] /\ g.p_pptr[t] = f.p_pptr[t]
      BY <1>1, <2>1, <2>3 DEF SetAtHead
    <3>2. g.p_cptr[g.p_pptr[t]] = t <=> f.p_cptr[f.p_pptr[t]] = t
      BY <1>1, <2>1, <2>3, <3>1 DEF SetAtHead
    <3>3. \A u \in A : g.p_osptr[u] = f.p_osptr[u]
      BY <1>1 DEF SetAtHead
    <3> QED
      BY <2>1, <3>1, <3>2, <3>3
  <2> QED
    BY <2>2, <2>3
<1> QED
  BY <1>3, <1>4

LEMMA SetTree ==
    ASSUME NEW f \in Families, NEW g, NEW A \in SUBSET Slots, NEW p \in Slots \ A, NEW q \in Tasks,
           Tree(f, A), SetAtHead(f, g, p, q)
    PROVE  Tree(g, A \cup {p})
<1>1. PICK pos \in [Tasks -> Nat] : Older(f, A, pos) /\ Younger(f, A, A)
  BY DEF Tree
<1>2. PICK new \in [Tasks -> Nat] : Older(g, A \cup {p}, new)
  BY <1>1, SetOlder DEF OlderStill
<1>3. A \in SUBSET A
  OBVIOUS
<1>4. Younger(g, A \cup {p}, A \cup {p})
  BY <1>1, <1>3, SetYounger
<1> QED
  BY <1>2, <1>4 DEF Tree

\* A task moved from one list to another.
LEMMA MoveTree ==
    ASSUME NEW f \in Families, NEW A \in SUBSET Slots, NEW p \in A, NEW q \in Tasks, Tree(f, A)
    PROVE  /\ Tree(Move(f, p, q), A)
           /\ Move(f, p, q) \in Families
           /\ Move(f, p, q).p_opptr = f.p_opptr
           /\ \A t \in Tasks : Move(f, p, q).p_pptr[t] = IF t = p THEN q ELSE f.p_pptr[t]
<1>0. p \in Tasks /\ p \in Slots
  BY ConstantsTypes
<1>1. PICK h : h = REMOVE_LINKS(f, p)
  OBVIOUS
<1>2. Removed(f, h, p)
  BY <1>0, <1>1, RemoveLinks
<1>3. h \in Families /\ h.p_pptr = f.p_pptr /\ h.p_opptr = f.p_opptr
  BY <1>2 DEF Removed
<1>4. Tree(h, A \ {p})
  BY <1>2, RemoveTree
<1>5. PICK g : g = SET_LINKS(h, p, q)
  OBVIOUS
<1>6. SetAtHead(h, g, p, q)
  BY <1>0, <1>3, <1>5, SetLinks
<1>7. Tree(g, (A \ {p}) \cup {p})
  <2>1. A \ {p} \in SUBSET Slots /\ p \in Slots \ (A \ {p})
    BY <1>0
  <2> QED
    BY <1>3, <1>4, <1>6, <2>1, SetTree
<1>8. (A \ {p}) \cup {p} = A
  OBVIOUS
<1>9. /\ g \in Families /\ g.p_opptr = f.p_opptr
      /\ \A t \in Tasks : g.p_pptr[t] = IF t = p THEN q ELSE f.p_pptr[t]
  BY <1>3, <1>6 DEF SetAtHead
<1>10. g = Move(f, p, q)
  BY <1>1, <1>5 DEF Move
<1> QED
  BY <1>7, <1>8, <1>9, <1>10

\* A task that leaves its list and is freed; it has no children.
LEMMA ForgottenTree ==
    ASSUME NEW f \in Families, NEW A \in SUBSET Slots, NEW p \in A, Tree(f, A),
           \A t \in A : f.p_pptr[t] # p
    PROVE  /\ Tree(Forgotten(f, p), A \ {p})
           /\ Forgotten(f, p) \in Families
           /\ \A t \in Tasks \ {p} : /\ Forgotten(f, p).p_pptr[t] = f.p_pptr[t]
                                     /\ Forgotten(f, p).p_opptr[t] = f.p_opptr[t]
<1>0. p \in Tasks /\ p \in Slots /\ A \subseteq Tasks /\ NULL \notin A
  BY ConstantsTypes
<1>1. PICK h : h = REMOVE_LINKS(f, p)
  OBVIOUS
<1>2. Removed(f, h, p)
  BY <1>0, <1>1, RemoveLinks
<1>3. h \in Families /\ h.p_pptr = f.p_pptr /\ h.p_opptr = f.p_opptr
  BY <1>2 DEF Removed
<1>4. PICK pos \in [Tasks -> Nat] : Older(h, A \ {p}, pos) /\ Younger(h, A \ {p}, A \ {p})
  BY <1>2, RemoveTree DEF Tree
<1>5. PICK g : g = [h EXCEPT !.p_pptr[p] = NULL, !.p_opptr[p] = NULL, !.p_cptr[p] = NULL,
                             !.p_ysptr[p] = NULL, !.p_osptr[p] = NULL]
  OBVIOUS
<1>6. /\ g \in Families /\ g.p_cptr[p] = NULL
      /\ \A t \in Tasks \ {p} :
            /\ g.p_pptr[t] = h.p_pptr[t] /\ g.p_opptr[t] = h.p_opptr[t]
            /\ g.p_cptr[t] = h.p_cptr[t] /\ g.p_ysptr[t] = h.p_ysptr[t]
            /\ g.p_osptr[t] = h.p_osptr[t]
  BY <1>0, <1>3, <1>5 DEF Families, Links
<1>7. \A t \in A \ {p} : h.p_pptr[t] # p /\ h.p_pptr[t] \in Tasks /\ t \in Tasks \ {p}
  BY <1>0, <1>3, <1>4 DEF Older
<1>8. Older(g, A \ {p}, pos)
  <2>1. ASSUME NEW t \in A \ {p}
        PROVE  /\ g.p_pptr[t] \in Tasks /\ g.p_cptr[g.p_pptr[t]] \in A \ {p}
               /\ pos[t] >= 1 /\ pos[t] <= pos[g.p_cptr[g.p_pptr[t]]]
               /\ pos[t] = 1 => g.p_osptr[t] = NULL
               /\ pos[t] > 1 => /\ g.p_osptr[t] \in A \ {p}
                                /\ g.p_pptr[g.p_osptr[t]] = g.p_pptr[t]
                                /\ pos[g.p_osptr[t]] = pos[t] - 1
    BY <1>4, <1>6, <1>7 DEF Older
  <2>2. ASSUME NEW q \in Tasks, g.p_cptr[q] # NULL
        PROVE  g.p_cptr[q] \in A \ {p} /\ g.p_pptr[g.p_cptr[q]] = q
    BY <1>4, <1>6, <1>7, <2>2 DEF Older
  <2>3. ASSUME NEW s \in A \ {p}, NEW t \in A \ {p}, g.p_pptr[s] = g.p_pptr[t], pos[s] = pos[t]
        PROVE  s = t
    BY <1>4, <1>6, <1>7, <2>3 DEF Older
  <2> QED
    BY <2>1, <2>2, <2>3 DEF Older
<1>9. Younger(g, A \ {p}, A \ {p})
  BY <1>4, <1>6, <1>7 DEF Younger
<1>10. g = Forgotten(f, p)
  BY <1>1, <1>5 DEF Forgotten
<1>11. Tree(g, A \ {p})
  BY <1>8, <1>9 DEF Tree
<1> QED
  BY <1>3, <1>6, <1>10, <1>11

-----------------------------------------------------------------------------
(* Lists are finite: induction over places, with the property as a set.    *)

LEMMA LeastNumber ==
    ASSUME NEW S, S \subseteq Nat, S # {}
    PROVE  \E m \in S : \A y \in S : m <= y
<1>1. PICK m \in S : \A y \in S : <<y, m>> \notin OpToRel(<, Nat)
  BY NatLessThanWellFounded, WFMin
<1>2. ASSUME NEW y \in S PROVE m <= y
  <2>1. m \in Nat /\ y \in Nat
    OBVIOUS
  <2>2. y < m => <<y, m>> \in OpToRel(<, Nat)
    BY <2>1 DEF OpToRel
  <2>3. ~(y < m)
    BY <1>1, <2>2, Zenon
  <2> QED
    BY <2>1, <2>3
<1> QED
  BY <1>2

LEMMA NumberInduction ==
    ASSUME NEW Q, 0 \in Q, \A n \in Nat : n \in Q => n + 1 \in Q
    PROVE  Nat \subseteq Q
<1> SUFFICES ASSUME Nat \ Q # {} PROVE FALSE
  OBVIOUS
<1>1. PICK m \in Nat \ Q : \A y \in Nat \ Q : m <= y
  BY LeastNumber
<1>2. m # 0 /\ m - 1 \in Nat /\ ~(m <= m - 1)
  BY <1>1
<1>3. m - 1 \in Q
  BY <1>1, <1>2
<1>4. (m - 1) + 1 \in Q
  BY <1>2, <1>3
<1>5. (m - 1) + 1 = m
  BY <1>1
<1> QED
  BY <1>1, <1>4, <1>5

\* No list is longer than the task table.
LEMMA ListLength ==
    ASSUME NEW f, NEW A \in SUBSET Slots, NEW pos \in [Tasks -> Nat], Older(f, A, pos), NEW t \in A
    PROVE  pos[t] <= N
<1> DEFINE q == f.p_pptr[t]
           At(i) == {s \in A : f.p_pptr[s] = q /\ pos[s] = i}
           Q == {k \in Nat : k < pos[t] => At(pos[t] - k) # {}}
<1>1. \A s \in A : s \in Tasks /\ pos[s] \in Nat /\ pos[s] >= 1
  BY ConstantsTypes DEF Older
<1>2. 0 \in Q
  BY <1>1
<1>3. ASSUME NEW k \in Nat, k \in Q PROVE k + 1 \in Q
  <2> SUFFICES ASSUME k + 1 < pos[t] PROVE At(pos[t] - (k + 1)) # {}
    OBVIOUS
  <2>1. PICK s \in A : f.p_pptr[s] = q /\ pos[s] = pos[t] - k
    BY <1>1, <1>3
  <2>2. pos[s] > 1
    BY <1>1, <2>1
  <2>3. f.p_osptr[s] \in A /\ f.p_pptr[f.p_osptr[s]] = q /\ pos[f.p_osptr[s]] = pos[s] - 1
    BY <2>1, <2>2 DEF Older
  <2>4. pos[s] - 1 = pos[t] - (k + 1)
    BY <1>1, <2>1
  <2> QED
    BY <2>3, <2>4
<1>4. Nat \subseteq Q
  <2> HIDE DEF Q
  <2> QED
    BY <1>2, <1>3, NumberInduction
<1>5. ASSUME NEW i \in 1..pos[t] PROVE At(i) # {}
  <2>1. pos[t] - i \in Nat /\ pos[t] - i < pos[t] /\ pos[t] - (pos[t] - i) = i
    BY <1>1
  <2> QED
    BY <1>4, <2>1
<1> DEFINE who == [i \in 1..pos[t] |-> CHOOSE s \in A : f.p_pptr[s] = q /\ pos[s] = i]
<1>6. \A i \in 1..pos[t] : who[i] \in A /\ pos[who[i]] = i
  BY <1>5
<1>7. who \in Injection(1..pos[t], Slots)
  <2>1. who \in [1..pos[t] -> Slots]
    BY <1>6
  <2>2. \A i, j \in 1..pos[t] : who[i] = who[j] => i = j
    BY <1>6
  <2> HIDE DEF who
  <2> QED
    BY <2>1, <2>2 DEF Injection, IsInjective
<1> HIDE DEF who
<1>8. Cardinality(1..pos[t]) <= N
  BY <1>7, FS_Injection, ConstantsTypes DEF N
<1>9. Cardinality(1..pos[t]) = pos[t]
  <2>1. 1 \in Int /\ pos[t] \in Int /\ ~(1 > pos[t]) /\ pos[t] - 1 + 1 = pos[t]
    BY <1>1
  <2> QED
    BY <2>1, FS_Interval
<1> QED
  BY <1>8, <1>9

-----------------------------------------------------------------------------
(* The list that wait4 walks.                                              *)

\* k follows the list of p for n steps.
Walks(k, p, n) ==
    k = [i \in 1..n |-> IF i = 1 THEN fam.p_cptr[p]
                        ELSE IF k[i - 1] = NULL THEN NULL ELSE fam.p_osptr[k[i - 1]]]

LEMMA WalkExists ==
    ASSUME NEW p
    PROVE  \A n \in Nat : \E k : Walks(k, p, n)
<1> DEFINE Q == {n \in Nat : \E k : Walks(k, p, n)}
<1>1. 0 \in Q
  <2> DEFINE k == [i \in 1..0 |-> NULL]
  <2>1. Walks(k, p, 0)
    BY DEF Walks
  <2> QED
    BY <2>1
<1>2. ASSUME NEW n \in Nat, n \in Q PROVE n + 1 \in Q
  <2>1. PICK k : Walks(k, p, n)
    BY <1>2
  <2> DEFINE Succ(i) == IF i = 1 THEN fam.p_cptr[p]
                        ELSE IF k[i - 1] = NULL THEN NULL ELSE fam.p_osptr[k[i - 1]]
             h == [i \in 1..n + 1 |-> Succ(i)]
  <2>2. \A i \in 1..n : k[i] = Succ(i)
    BY <2>1 DEF Walks
  <2>3. \A i \in 1..n + 1 : i = 1 \/ i - 1 \in 1..n
    OBVIOUS
  <2>4. \A i \in 1..n : h[i] = k[i]
    BY <2>2
  <2>5. h = [i \in 1..n + 1 |-> IF i = 1 THEN fam.p_cptr[p]
                                ELSE IF h[i - 1] = NULL THEN NULL ELSE fam.p_osptr[h[i - 1]]]
    BY <2>3, <2>4
  <2>6. Walks(h, p, n + 1)
    BY <2>5 DEF Walks
  <2> HIDE DEF h
  <2> QED
    BY <2>6
<1> HIDE DEF Q
<1>3. Nat \subseteq Q
  BY <1>1, <1>2, NumberInduction
<1> QED
  BY <1>3 DEF Q

LEMMA ChildWalks ==
    ASSUME NEW p
    PROVE  Walks(Child(p), p, N + 1)
<1>1. N + 1 \in Nat
  BY ConstantsTypes
<1>2. \E k : Walks(k, p, N + 1)
  BY <1>1, WalkExists
<1>3. Child(p) = CHOOSE k : Walks(k, p, N + 1)
  BY DEF Child, Walks
<1> QED
  BY <1>2, <1>3

\* It holds children of p only, and all of them.
LEMMA ChildList ==
    ASSUME fam \in Families, NEW A \in SUBSET Slots, Tree(fam, A), NEW p \in Tasks
    PROVE  /\ \A i \in 1..N : Child(p)[i] = NULL
                              \/ (Child(p)[i] \in A /\ fam.p_pptr[Child(p)[i]] = p)
           /\ \A t \in A : fam.p_pptr[t] = p => \E i \in 1..N : Child(p)[i] = t
<1>0. PICK pos \in [Tasks -> Nat] : Older(fam, A, pos)
  BY DEF Tree
<1>1. PICK k : k = Child(p)
  OBVIOUS
<1>2. N \in Nat /\ A \subseteq Tasks /\ NULL \notin A /\ \A t \in A : pos[t] \in Nat
  BY ConstantsTypes
<1>3. \A i \in 1..N + 1 : k[i] = IF i = 1 THEN fam.p_cptr[p]
                                 ELSE IF k[i - 1] = NULL THEN NULL ELSE fam.p_osptr[k[i - 1]]
  <2>1. Walks(k, p, N + 1)
    BY <1>1, ChildWalks
  <2> QED
    BY <2>1 DEF Walks
<1>4. \A i \in 1..N + 1 : i # 1 => i - 1 \in 1..N + 1
  BY <1>2
<1> DEFINE Ok(x) == x = NULL \/ (x \in A /\ fam.p_pptr[x] = p)
           Q == {n \in Nat : n + 1 \in 1..N + 1 => Ok(k[n + 1])}
<1>5. Ok(fam.p_cptr[p])
  BY <1>0 DEF Older
<1>6. ASSUME NEW x \in A, fam.p_pptr[x] = p
      PROVE  Ok(fam.p_osptr[x]) /\ pos[x] >= 1
  BY <1>0, <1>2, <1>6 DEF Older
<1>7. Nat \subseteq Q
  <2>1. 0 \in Q
    BY <1>3, <1>5
  <2>2. ASSUME NEW n \in Nat, n \in Q PROVE n + 1 \in Q
    <3> SUFFICES ASSUME (n + 1) + 1 \in 1..N + 1 PROVE Ok(k[(n + 1) + 1])
      OBVIOUS
    <3>1. n + 1 \in 1..N + 1 /\ ((n + 1) + 1) - 1 = n + 1 /\ (n + 1) + 1 # 1
      BY <1>2
    <3>2. Ok(k[n + 1])
      BY <2>2, <3>1
    <3>3. k[(n + 1) + 1] = IF k[n + 1] = NULL THEN NULL ELSE fam.p_osptr[k[n + 1]]
      BY <1>3, <3>1
    <3> QED
      BY <1>2, <1>6, <3>2, <3>3
  <2> HIDE DEF Q
  <2> QED
    BY <2>1, <2>2, NumberInduction
<1>8. ASSUME NEW i \in 1..N PROVE Ok(k[i])
  <2>1. i - 1 \in Nat /\ (i - 1) + 1 = i /\ i \in 1..N + 1
    BY <1>2
  <2> QED
    BY <1>7, <2>1
<1>9. ASSUME NEW t \in A, fam.p_pptr[t] = p
      PROVE  \E i \in 1..N : k[i] = t
  <2> DEFINE c == fam.p_cptr[p]
             P == {n \in Nat : n < pos[c] => /\ k[n + 1] \in A /\ fam.p_pptr[k[n + 1]] = p
                                             /\ pos[k[n + 1]] = pos[c] - n}
  <2>1. c \in A /\ fam.p_pptr[c] = p /\ pos[t] <= pos[c] /\ pos[t] >= 1
    BY <1>0, <1>2, <1>9 DEF Older
  <2>2. pos[c] <= N
    BY <1>0, <2>1, ListLength
  <2>3. 0 \in P
    BY <1>2, <1>3, <2>1
  <2>4. ASSUME NEW n \in Nat, n \in P PROVE n + 1 \in P
    <3> SUFFICES ASSUME n + 1 < pos[c]
                 PROVE  /\ k[(n + 1) + 1] \in A /\ fam.p_pptr[k[(n + 1) + 1]] = p
                        /\ pos[k[(n + 1) + 1]] = pos[c] - (n + 1)
      OBVIOUS
    <3>1. (n + 1) + 1 \in 1..N + 1 /\ ((n + 1) + 1) - 1 = n + 1 /\ (n + 1) + 1 # 1 /\ n < pos[c]
      BY <1>2, <2>1, <2>2
    <3>2. k[n + 1] \in A /\ fam.p_pptr[k[n + 1]] = p /\ pos[k[n + 1]] = pos[c] - n
      BY <2>4, <3>1
    <3>3. k[(n + 1) + 1] = fam.p_osptr[k[n + 1]]
      BY <1>2, <1>3, <3>1, <3>2
    <3>4. pos[k[n + 1]] > 1
      BY <1>2, <2>1, <3>2
    <3>5. /\ fam.p_osptr[k[n + 1]] \in A /\ fam.p_pptr[fam.p_osptr[k[n + 1]]] = p
          /\ pos[fam.p_osptr[k[n + 1]]] = pos[k[n + 1]] - 1
      BY <1>0, <3>2, <3>4 DEF Older
    <3> QED
      BY <1>2, <2>1, <3>2, <3>3, <3>5
  <2>5. Nat \subseteq P
    <3> HIDE DEF P
    <3> QED
      BY <2>3, <2>4, NumberInduction
  <2>6. PICK n \in Nat : n = pos[c] - pos[t]
    BY <1>2, <2>1
  <2>7. n < pos[c] /\ n + 1 \in 1..N /\ pos[c] - n = pos[t]
    BY <1>2, <2>1, <2>2, <2>6
  <2>8. k[n + 1] \in A /\ fam.p_pptr[k[n + 1]] = p /\ pos[k[n + 1]] = pos[t]
    BY <2>5, <2>7
  <2>9. k[n + 1] = t
    BY <1>0, <1>9, <2>8 DEF Older
  <2> QED
    BY <2>7, <2>9
<1> QED
  BY <1>1, <1>8, <1>9

-----------------------------------------------------------------------------
(* The loop of do_exit that gives the children of p to init.               *)

Inherited(f, g, p, A, pos) ==
    /\ g \in Families /\ g.p_opptr = f.p_opptr
    /\ \A t \in Tasks : g.p_pptr[t] = IF t = f.p_cptr[p] THEN init ELSE f.p_pptr[t]
    /\ f.p_cptr[p] \in A /\ f.p_pptr[f.p_cptr[p]] = p
    /\ Younger(g, A, A \ {g.p_cptr[p]})
    /\ \E new \in [Tasks -> Nat] :
          Older(g, A, new) /\ (g.p_cptr[p] # NULL => new[g.p_cptr[p]] = pos[f.p_cptr[p]] - 1)

\* One round takes the youngest child.  Its older sibling becomes the
\* youngest and still points to it, until its own round.
LEMMA InheritOne ==
    ASSUME NEW f \in Families, NEW A \in SUBSET Slots, NEW p \in Slots, NEW pos \in [Tasks -> Nat],
           Older(f, A, pos), Younger(f, A, A \ {f.p_cptr[p]}), f.p_cptr[p] # NULL
    PROVE  Inherited(f, InitInherits(f, p), p, A, pos)
<1> DEFINE c == f.p_cptr[p]
           o == f.p_osptr[c]
           B == A \ {c}
<1>0. /\ p \in Tasks /\ p # init /\ init \in Tasks /\ A \subseteq Tasks /\ NULL \notin A
      /\ \A t \in A : pos[t] \in Nat
  BY ConstantsTypes
<1>1. c \in A /\ f.p_pptr[c] = p
  BY <1>0 DEF Older
<1>2. /\ pos[c] = 1 => o = NULL
      /\ pos[c] > 1 => o \in A /\ f.p_pptr[o] = p /\ pos[o] = pos[c] - 1
      /\ pos[c] >= 1
  BY <1>1 DEF Older
<1>3. PICK h : h = [f EXCEPT !.p_cptr[p] = o]
  OBVIOUS
<1>4. /\ h \in Families /\ h.p_pptr = f.p_pptr /\ h.p_opptr = f.p_opptr
      /\ h.p_ysptr = f.p_ysptr /\ h.p_osptr = f.p_osptr
      /\ \A t \in Tasks : h.p_cptr[t] = IF t = p THEN o ELSE f.p_cptr[t]
  BY <1>0, <1>1, <1>3 DEF Families, Links
<1>5. \A t \in B : f.p_pptr[t] = p => pos[t] < pos[c]
  BY <1>0, <1>1 DEF Older
<1>6. \A t \in A : f.p_osptr[t] \in A => /\ f.p_pptr[f.p_osptr[t]] = f.p_pptr[t]
                                         /\ pos[f.p_osptr[t]] = pos[t] - 1
  BY <1>0 DEF Older
<1>7. Older(h, B, pos)
  <2>1. ASSUME NEW t \in B
        PROVE  /\ h.p_pptr[t] \in Tasks /\ h.p_cptr[h.p_pptr[t]] \in B
               /\ pos[t] >= 1 /\ pos[t] <= pos[h.p_cptr[h.p_pptr[t]]]
    <3>1. /\ f.p_pptr[t] \in Tasks /\ f.p_cptr[f.p_pptr[t]] \in A /\ pos[t] >= 1
          /\ pos[t] <= pos[f.p_cptr[f.p_pptr[t]]] /\ f.p_pptr[f.p_cptr[f.p_pptr[t]]] = f.p_pptr[t]
      BY <1>0 DEF Older
    <3>2. CASE f.p_pptr[t] = p
      <4>1. pos[t] < pos[c]
        BY <1>5, <3>2
      <4>2. o \in A /\ pos[o] = pos[c] - 1
        BY <1>0, <1>1, <1>2, <3>1, <4>1
      <4> QED
        BY <1>0, <1>1, <1>4, <3>1, <3>2, <4>1, <4>2
    <3>3. CASE f.p_pptr[t] # p
      BY <1>1, <1>4, <3>1, <3>3
    <3> QED
      BY <3>2, <3>3
  <2>2. ASSUME NEW t \in B
        PROVE  /\ pos[t] = 1 => h.p_osptr[t] = NULL
               /\ pos[t] > 1 => /\ h.p_osptr[t] \in B
                                /\ h.p_pptr[h.p_osptr[t]] = h.p_pptr[t]
                                /\ pos[h.p_osptr[t]] = pos[t] - 1
    <3>1. /\ pos[t] = 1 => f.p_osptr[t] = NULL
          /\ pos[t] > 1 => f.p_osptr[t] \in A /\ f.p_pptr[f.p_osptr[t]] = f.p_pptr[t]
                           /\ pos[f.p_osptr[t]] = pos[t] - 1
      BY DEF Older
    <3>2. f.p_osptr[t] # c
      BY <1>0, <1>1, <1>5, <1>6
    <3> QED
      BY <1>4, <3>1, <3>2
  <2>3. ASSUME NEW q \in Tasks, h.p_cptr[q] # NULL
        PROVE  h.p_cptr[q] \in B /\ h.p_pptr[h.p_cptr[q]] = q
    <3>1. CASE q = p
      BY <1>0, <1>1, <1>2, <1>4, <2>3, <3>1
    <3>2. CASE q # p
      BY <1>1, <1>4, <2>3, <3>2 DEF Older
    <3> QED
      BY <3>1, <3>2
  <2>4. ASSUME NEW s \in B, NEW t \in B, h.p_pptr[s] = h.p_pptr[t], pos[s] = pos[t]
        PROVE  s = t
    BY <1>4, <2>4 DEF Older
  <2> QED
    BY <2>1, <2>2, <2>3, <2>4 DEF Older
<1>8. Younger(h, B, B \ {o})
  <2> SUFFICES ASSUME NEW t \in B \ {o}
               PROVE  /\ h.p_cptr[h.p_pptr[t]] = t => h.p_ysptr[t] = NULL
                      /\ h.p_cptr[h.p_pptr[t]] # t => h.p_ysptr[t] \in B /\ h.p_osptr[h.p_ysptr[t]] = t
    BY DEF Younger
  <2>1. /\ f.p_cptr[f.p_pptr[t]] = t => f.p_ysptr[t] = NULL
        /\ f.p_cptr[f.p_pptr[t]] # t => f.p_ysptr[t] \in A /\ f.p_osptr[f.p_ysptr[t]] = t
    BY DEF Younger
  <2>2. f.p_pptr[t] \in Tasks
    BY DEF Older
  <2>3. CASE f.p_pptr[t] = p
    BY <1>1, <1>4, <2>1, <2>2, <2>3
  <2>4. CASE f.p_pptr[t] # p
    BY <1>1, <1>4, <2>1, <2>2, <2>4
  <2> QED
    BY <2>3, <2>4
<1>9. PICK g : g = SET_LINKS(h, c, init)
  OBVIOUS
<1>10. SetAtHead(h, g, c, init)
  BY <1>0, <1>1, <1>4, <1>9, SetLinks
<1>11. /\ B \in SUBSET Slots /\ c \in Slots \ B /\ B \ {o} \in SUBSET B /\ B \cup {c} = A
       /\ o # c
  BY <1>0, <1>1, <1>2
<1>12. PICK new \in [Tasks -> Nat] : Older(g, A, new) /\ \A t \in B : new[t] = pos[t]
  <2>1. OlderStill(g, B \cup {c}, B, pos)
    <3> HIDE DEF B, c, o
    <3> QED
      BY <1>0, <1>4, <1>7, <1>10, <1>11, SetOlder
  <2> QED
    BY <1>11, <2>1 DEF OlderStill
<1>13. g.p_cptr[p] = o
  BY <1>0, <1>4, <1>10 DEF SetAtHead
<1>14. Younger(g, A, A \ {g.p_cptr[p]})
  <2>1. Younger(g, B \cup {c}, (B \ {o}) \cup {c})
    <3> HIDE DEF B, c, o
    <3> QED
      BY <1>0, <1>4, <1>7, <1>8, <1>10, <1>11, SetYounger
  <2>2. (B \ {o}) \cup {c} = A \ {o}
    BY <1>11
  <2> QED
    BY <1>11, <1>13, <2>1, <2>2
<1>15. o # NULL => new[o] = pos[c] - 1
  BY <1>0, <1>2, <1>11, <1>12
<1>16. /\ g \in Families /\ g.p_opptr = f.p_opptr
       /\ \A t \in Tasks : g.p_pptr[t] = IF t = c THEN init ELSE f.p_pptr[t]
  BY <1>4, <1>10 DEF SetAtHead
<1>17. g = InitInherits(f, p)
  BY <1>3, <1>9 DEF InitInherits
<1> QED
  <2>1. Inherited(f, g, p, A, pos)
    BY <1>1, <1>12, <1>13, <1>14, <1>15, <1>16 DEF Inherited
  <2> QED
    BY <1>17, <2>1

\* h[i] is the family after i rounds.
Rounds(h, f, p, n) == h = [i \in 0..n |-> IF i = 0 THEN f ELSE InitInherits(h[i - 1], p)]

LEMMA RoundsExist ==
    ASSUME NEW f, NEW p
    PROVE  \A n \in Nat : \E h : Rounds(h, f, p, n)
<1> DEFINE Q == {n \in Nat : \E h : Rounds(h, f, p, n)}
<1>1. 0 \in Q
  <2> DEFINE h == [i \in 0..0 |-> f]
  <2>1. \A i \in 0..0 : i = 0
    OBVIOUS
  <2>2. h = [i \in 0..0 |-> IF i = 0 THEN f ELSE InitInherits(h[i - 1], p)]
    BY <2>1
  <2>3. Rounds(h, f, p, 0)
    BY <2>2 DEF Rounds
  <2> QED
    BY <2>3
<1>2. ASSUME NEW n \in Nat, n \in Q PROVE n + 1 \in Q
  <2>1. PICK h : Rounds(h, f, p, n)
    BY <1>2
  <2> DEFINE Succ(i) == IF i = 0 THEN f ELSE InitInherits(h[i - 1], p)
             k == [i \in 0..n + 1 |-> Succ(i)]
  <2>2. \A i \in 0..n : h[i] = Succ(i)
    BY <2>1 DEF Rounds
  <2>3. \A i \in 0..n + 1 : i = 0 \/ i - 1 \in 0..n
    OBVIOUS
  <2>4. \A i \in 0..n : k[i] = h[i]
    BY <2>2
  <2>5. k = [i \in 0..n + 1 |-> IF i = 0 THEN f ELSE InitInherits(k[i - 1], p)]
    BY <2>3, <2>4
  <2>6. Rounds(k, f, p, n + 1)
    BY <2>5 DEF Rounds
  <2> HIDE DEF k
  <2> QED
    BY <2>6
<1> HIDE DEF Q
<1>3. Nat \subseteq Q
  BY <1>1, <1>2, NumberInduction
<1> QED
  BY <1>3 DEF Q

\* What holds after i rounds.
Halfway(f, g, p, A, i) ==
    /\ g \in Families /\ g.p_opptr = f.p_opptr
    /\ \A t \in A : IF f.p_pptr[t] = p THEN g.p_pptr[t] \in {p, init} ELSE g.p_pptr[t] = f.p_pptr[t]
    /\ Younger(g, A, A \ {g.p_cptr[p]})
    /\ \E pos \in [Tasks -> Nat] :
          Older(g, A, pos) /\ (g.p_cptr[p] # NULL => pos[g.p_cptr[p]] <= N - i)

LEMMA HalfwayStarts ==
    ASSUME NEW f \in Families, NEW A \in SUBSET Slots, NEW p \in Slots, Tree(f, A)
    PROVE  Halfway(f, f, p, A, 0)
<1>1. PICK pos \in [Tasks -> Nat] : Older(f, A, pos) /\ Younger(f, A, A)
  BY DEF Tree
<1>2. f.p_cptr[p] # NULL => f.p_cptr[p] \in A
  BY <1>1, ConstantsTypes DEF Older
<1>3. f.p_cptr[p] # NULL => pos[f.p_cptr[p]] <= N
  BY <1>1, <1>2, ListLength
<1>4. N - 0 = N
  BY ConstantsTypes
<1>5. Younger(f, A, A \ {f.p_cptr[p]})
  BY <1>1 DEF Younger
<1>6. \A t \in A : IF f.p_pptr[t] = p THEN f.p_pptr[t] \in {p, init} ELSE f.p_pptr[t] = f.p_pptr[t]
  OBVIOUS
<1> QED
  BY <1>1, <1>3, <1>4, <1>5, <1>6 DEF Halfway

LEMMA HalfwayGoesOn ==
    ASSUME NEW f \in Families, NEW g, NEW A \in SUBSET Slots, NEW p \in Slots, NEW i \in Nat, i < N,
           Halfway(f, g, p, A, i)
    PROVE  Halfway(f, InitInherits(g, p), p, A, i + 1)
<1>0. /\ N \in Nat /\ NULL \notin A /\ A \subseteq Tasks
      /\ N - i - 1 = N - (i + 1)
  BY ConstantsTypes
<1>1. /\ g \in Families /\ g.p_opptr = f.p_opptr
      /\ \A t \in A : IF f.p_pptr[t] = p THEN g.p_pptr[t] \in {p, init} ELSE g.p_pptr[t] = f.p_pptr[t]
      /\ Younger(g, A, A \ {g.p_cptr[p]})
  BY DEF Halfway
<1>2. PICK pos \in [Tasks -> Nat] :
          Older(g, A, pos) /\ (g.p_cptr[p] # NULL => pos[g.p_cptr[p]] <= N - i)
  BY DEF Halfway
<1>3. CASE g.p_cptr[p] = NULL
  <2>1. InitInherits(g, p) = g
    BY <1>3 DEF InitInherits
  <2> QED
    BY <1>1, <1>2, <1>3, <2>1 DEF Halfway
<1>4. CASE g.p_cptr[p] # NULL
  <2> DEFINE c == g.p_cptr[p]
  <2>1. PICK k : k = InitInherits(g, p)
    OBVIOUS
  <2>2. /\ k \in Families /\ k.p_opptr = g.p_opptr
        /\ \A t \in Tasks : k.p_pptr[t] = IF t = c THEN init ELSE g.p_pptr[t]
        /\ c \in A /\ g.p_pptr[c] = p
        /\ Younger(k, A, A \ {k.p_cptr[p]})
        /\ \E new \in [Tasks -> Nat] :
              Older(k, A, new) /\ (k.p_cptr[p] # NULL => new[k.p_cptr[p]] = pos[c] - 1)
    <3>1. Inherited(g, InitInherits(g, p), p, A, pos)
      BY <1>1, <1>2, <1>4, InheritOne
    <3> QED
      BY <2>1, <3>1 DEF Inherited
  <2>3. PICK new \in [Tasks -> Nat] :
              Older(k, A, new) /\ (k.p_cptr[p] # NULL => new[k.p_cptr[p]] = pos[c] - 1)
    BY <2>2
  <2>4. pos[c] \in Nat
    BY <1>0, <2>2
  <2>5. pos[c] - 1 <= N - (i + 1)
    BY <1>0, <1>2, <1>4, <2>4
  <2>6. \A t \in A : IF f.p_pptr[t] = p THEN k.p_pptr[t] \in {p, init} ELSE k.p_pptr[t] = f.p_pptr[t]
    BY <1>0, <1>1, <2>2, ConstantsTypes
  <2>7. k.p_cptr[p] # NULL => new[k.p_cptr[p]] <= N - (i + 1)
    BY <2>3, <2>5
  <2>8. Halfway(f, k, p, A, i + 1)
    BY <1>1, <2>2, <2>3, <2>6, <2>7 DEF Halfway
  <2> QED
    BY <2>1, <2>8
<1> QED
  BY <1>3, <1>4

\* When it is over every child of p is a child of init, and the rest is as
\* it was.
LEMMA InheritTree ==
    ASSUME NEW f \in Families, NEW A \in SUBSET Slots, NEW p \in Slots, Tree(f, A)
    PROVE  /\ Tree(InheritAll(f, p), A)
           /\ InheritAll(f, p) \in Families
           /\ InheritAll(f, p).p_opptr = f.p_opptr
           /\ \A t \in A : InheritAll(f, p).p_pptr[t] = IF f.p_pptr[t] = p THEN init ELSE f.p_pptr[t]
<1>0. N \in Nat /\ NULL \notin A /\ A \subseteq Tasks /\ p \in Tasks
  BY ConstantsTypes
<1> DEFINE h == CHOOSE k : Rounds(k, f, p, N)
<1>1. InheritAll(f, p) = h[N]
  BY DEF InheritAll, Rounds
<1>2. Rounds(h, f, p, N)
  BY <1>0, RoundsExist
<1> HIDE DEF h
<1>3. \A i \in 0..N : h[i] = IF i = 0 THEN f ELSE InitInherits(h[i - 1], p)
  BY <1>2 DEF Rounds
<1> DEFINE Q == {i \in Nat : i <= N => Halfway(f, h[i], p, A, i)}
<1>4. 0 \in Q
  <2>1. h[0] = f
    BY <1>0, <1>3
  <2> QED
    BY <2>1, HalfwayStarts
<1>5. ASSUME NEW i \in Nat, i \in Q PROVE i + 1 \in Q
  <2> SUFFICES ASSUME i + 1 <= N PROVE Halfway(f, h[i + 1], p, A, i + 1)
    OBVIOUS
  <2>1. i < N /\ i <= N /\ i + 1 \in 0..N /\ i + 1 # 0 /\ (i + 1) - 1 = i
    BY <1>0
  <2>2. h[i + 1] = InitInherits(h[i], p)
    BY <1>3, <2>1
  <2>3. Halfway(f, h[i], p, A, i)
    BY <1>5, <2>1
  <2> QED
    BY <2>1, <2>2, <2>3, HalfwayGoesOn
<1>6. Nat \subseteq Q
  <2> HIDE DEF Q
  <2> QED
    BY <1>4, <1>5, NumberInduction
<1>7. PICK g : g = h[N]
  OBVIOUS
<1>8. Halfway(f, g, p, A, N)
  BY <1>0, <1>6, <1>7
<1>9. PICK pos \in [Tasks -> Nat] :
          Older(g, A, pos) /\ (g.p_cptr[p] # NULL => pos[g.p_cptr[p]] <= N - N)
  BY <1>8 DEF Halfway
<1>10. g.p_cptr[p] = NULL
  <2> SUFFICES ASSUME g.p_cptr[p] # NULL PROVE FALSE
    OBVIOUS
  <2>1. g.p_cptr[p] \in A
    BY <1>0, <1>9 DEF Older
  <2>2. pos[g.p_cptr[p]] >= 1 /\ pos[g.p_cptr[p]] \in Nat
    BY <1>0, <1>9, <2>1 DEF Older
  <2> QED
    BY <1>0, <1>9, <2>2
<1>11. Younger(g, A, A)
  <2>1. A \ {g.p_cptr[p]} = A
    BY <1>0, <1>10
  <2>2. Younger(g, A, A \ {g.p_cptr[p]})
    BY <1>8 DEF Halfway
  <2> QED
    BY <2>1, <2>2
<1>12. \A t \in A : g.p_pptr[t] # p
  BY <1>0, <1>9, <1>10 DEF Older
<1>13. /\ g \in Families /\ g.p_opptr = f.p_opptr
       /\ \A t \in A : g.p_pptr[t] = IF f.p_pptr[t] = p THEN init ELSE f.p_pptr[t]
  BY <1>8, <1>12 DEF Halfway
<1>14. Tree(g, A)
  BY <1>9, <1>11 DEF Tree
<1> QED
  BY <1>1, <1>7, <1>13, <1>14

-----------------------------------------------------------------------------
(* The initial states.                                                     *)

LEMMA Enumerated ==
    ASSUME NEW S, IsFiniteSet(S)
    PROVE  /\ Cardinality(S) \in Nat
           /\ SetToSeq(S) \in [1..Cardinality(S) -> S]
           /\ \A i, j \in 1..Cardinality(S) : SetToSeq(S)[i] = SetToSeq(S)[j] => i = j
           /\ \A t \in S : \E i \in 1..Cardinality(S) : SetToSeq(S)[i] = t
<1>1. Cardinality(S) \in Nat
  BY FS_CardinalityType
<1>2. PICK n \in Nat : n = Cardinality(S)
  BY <1>1
<1>3. ExistsBijection(1..n, S)
  BY <1>2, FS_CardinalityType
<1>4. \E f \in [1..n -> S] : IsInjective(f)
  BY <1>3 DEF ExistsBijection, Bijection, Injection
<1>5. PICK made : made = SetToSeq(S)
  OBVIOUS
<1>6. made \in [1..n -> S] /\ IsInjective(made)
  BY <1>2, <1>4, <1>5 DEF SetToSeq
<1>7. \A i, j \in 1..n : made[i] = made[j] => i = j
  BY <1>6 DEF IsInjective
<1>8. made \in Surjection(1..n, S)
  <2>1. made \in Injection(1..n, S)
    BY <1>6 DEF Injection
  <2>2. Cardinality(1..n) = n
    <3>1. 1 \in Int /\ n \in Int /\ (1 > n => n = 0) /\ n - 1 + 1 = n
      OBVIOUS
    <3> QED
      BY <3>1, FS_Interval
  <2> QED
    BY <1>2, <2>1, <2>2, FS_Injection
<1>9. \A t \in S : \E i \in 1..n : made[i] = t
  BY <1>8 DEF Surjection
<1> QED
  BY <1>2, <1>5, <1>6, <1>7, <1>9

LEMMA OffspringTree ==
    ASSUME NEW S \in SUBSET Slots, S # {}
    PROVE  /\ Tree(Offspring(SetToSeq(S)), S)
           /\ Offspring(SetToSeq(S)) \in Families
           /\ \A t \in S : /\ Offspring(SetToSeq(S)).p_pptr[t] = init
                           /\ Offspring(SetToSeq(S)).p_opptr[t] = init
<1>0. /\ S \subseteq Tasks /\ NULL \notin S /\ init \in Tasks /\ init \notin S /\ NULL \notin Tasks
      /\ IsFiniteSet(S)
  BY ConstantsTypes, FS_Subset
<1>a. PICK n \in Nat : n = Cardinality(S)
  BY <1>0, FS_CardinalityType
<1>b. PICK made : made = SetToSeq(S)
  OBVIOUS
<1>1. /\ made \in [1..n -> S]
      /\ \A i, j \in 1..n : made[i] = made[j] => i = j
      /\ \A t \in S : \E i \in 1..n : made[i] = t
  BY <1>0, <1>a, <1>b, Enumerated, Zenon
<1>2. n >= 1 /\ DOMAIN made = 1..n /\ Cardinality(1..n) = n
  <2>1. \E i \in 1..n : TRUE
    BY <1>1
  <2>2. n >= 1
    BY <2>1
  <2>3. 1 \in Int /\ n \in Int /\ ~(1 > n) /\ n - 1 + 1 = n
    BY <2>2
  <2> QED
    BY <1>1, <2>2, <2>3, FS_Interval
<1> DEFINE pos == [t \in Tasks |-> IF t \in S THEN CHOOSE i \in 1..n : made[i] = t ELSE 0]
           Nth(i) == IF i \in DOMAIN made THEN made[i] ELSE NULL
           In(t) == \E i \in DOMAIN made : made[i] = t
           Beside(d) == [t \in Tasks |-> IF In(t) THEN Nth((CHOOSE i \in DOMAIN made : made[i] = t) + d)
                                         ELSE NULL]
           parent == [t \in Tasks |-> IF In(t) THEN init ELSE NULL]
           cs == [t \in Tasks |-> IF t = init THEN Nth(Cardinality(DOMAIN made)) ELSE NULL]
<1>3. /\ pos \in [Tasks -> Nat]
      /\ \A t \in S : pos[t] \in 1..n /\ made[pos[t]] = t
  BY <1>0, <1>1
<1>4. \A i \in 1..n : made[i] \in S /\ pos[made[i]] = i
  BY <1>0, <1>1, <1>3
<1>5. \A t : In(t) <=> t \in S
  BY <1>1, <1>2
<1>6. \A t \in S : (CHOOSE i \in DOMAIN made : made[i] = t) = pos[t]
  BY <1>0, <1>2
<1>7. -1 \in Int /\ \A i \in 1..n : i + (-1) = i - 1
  BY <1>1
<1>8. /\ \A t \in S : Beside(1)[t] = Nth(pos[t] + 1) /\ Beside(-1)[t] = Nth(pos[t] - 1)
      /\ Beside(1) \in Links /\ Beside(-1) \in Links
  <2>1. \A i : Nth(i) \in Tasks \cup {NULL}
    BY <1>0, <1>2, <1>4
  <2>2. \A d : Beside(d) \in Links
    <3> HIDE DEF Nth
    <3> QED
      BY <2>1 DEF Links
  <2>3. \A t \in S : \A d : Beside(d)[t] = Nth(pos[t] + d)
    <3> HIDE DEF Nth, In
    <3> QED
      BY <1>0, <1>5, <1>6
  <2>4. \A t \in S : pos[t] + (-1) = pos[t] - 1
    BY <1>3, <1>7
  <2> HIDE DEF Beside, Nth
  <2> QED
    BY <2>2, <2>3, <2>4
<1>9. /\ parent \in Links
      /\ \A t \in S : parent[t] = init
  BY <1>0, <1>5 DEF Links
<1>10. /\ cs \in Links /\ cs[init] = made[n] /\ \A t \in Tasks : t # init => cs[t] = NULL
  BY <1>0, <1>1, <1>2, <1>4 DEF Links
<1>11. PICK f : f = [p_pptr |-> parent, p_opptr |-> parent, p_cptr |-> cs,
                     p_ysptr |-> Beside(1), p_osptr |-> Beside(-1)]
  OBVIOUS
<1>12. f = Offspring(SetToSeq(S))
  BY <1>b, <1>11 DEF Offspring
<1>13. \A i \in Int : (i \in 1..n => Nth(i) = made[i]) /\ (i \notin 1..n => Nth(i) = NULL)
  BY <1>2
<1> HIDE DEF pos, Beside, parent, cs, Nth, In
<1>14. /\ f \in Families /\ f.p_pptr = parent /\ f.p_opptr = parent /\ f.p_cptr = cs
       /\ f.p_ysptr = Beside(1) /\ f.p_osptr = Beside(-1)
  BY <1>8, <1>9, <1>10, <1>11 DEF Families
<1>15. Older(f, S, pos)
  <2>1. n \in 1..n /\ made[n] \in S /\ pos[made[n]] = n
    BY <1>2, <1>4
  <2>2. ASSUME NEW t \in S
        PROVE  /\ f.p_pptr[t] \in Tasks /\ f.p_cptr[f.p_pptr[t]] \in S
               /\ pos[t] >= 1 /\ pos[t] <= pos[f.p_cptr[f.p_pptr[t]]]
    BY <1>0, <1>3, <1>9, <1>10, <1>14, <2>1
  <2>3. ASSUME NEW t \in S
        PROVE  /\ pos[t] = 1 => f.p_osptr[t] = NULL
               /\ pos[t] > 1 => /\ f.p_osptr[t] \in S /\ f.p_pptr[f.p_osptr[t]] = f.p_pptr[t]
                                /\ pos[f.p_osptr[t]] = pos[t] - 1
    <3>1. f.p_osptr[t] = Nth(pos[t] - 1)
      BY <1>8, <1>14
    <3>2. /\ pos[t] = 1 => pos[t] - 1 \in Int /\ pos[t] - 1 \notin 1..n
          /\ pos[t] > 1 => pos[t] - 1 \in 1..n /\ pos[t] - 1 \in Int
      BY <1>3
    <3> QED
      BY <1>4, <1>9, <1>13, <1>14, <3>1, <3>2
  <2>4. ASSUME NEW q \in Tasks, f.p_cptr[q] # NULL
        PROVE  f.p_cptr[q] \in S /\ f.p_pptr[f.p_cptr[q]] = q
    BY <1>9, <1>10, <1>14, <2>1, <2>4
  <2>5. ASSUME NEW s \in S, NEW t \in S, pos[s] = pos[t] PROVE s = t
    BY <1>3, <2>5
  <2> QED
    BY <2>2, <2>3, <2>4, <2>5 DEF Older
<1>16. Younger(f, S, S)
  <2> SUFFICES ASSUME NEW t \in S
               PROVE  /\ f.p_cptr[f.p_pptr[t]] = t => f.p_ysptr[t] = NULL
                      /\ f.p_cptr[f.p_pptr[t]] # t => f.p_ysptr[t] \in S /\ f.p_osptr[f.p_ysptr[t]] = t
    BY DEF Younger
  <2>1. f.p_ysptr[t] = Nth(pos[t] + 1) /\ f.p_cptr[f.p_pptr[t]] = made[n]
    BY <1>8, <1>9, <1>10, <1>14
  <2>2. CASE pos[t] = n
    <3>1. made[n] = t
      BY <1>3, <2>2
    <3>2. pos[t] + 1 \in Int /\ pos[t] + 1 \notin 1..n
      BY <1>3, <2>2
    <3> QED
      BY <1>13, <2>1, <3>1, <3>2
  <2>3. CASE pos[t] # n
    <3>1. made[n] # t
      BY <1>2, <1>4, <2>3
    <3>2. pos[t] + 1 \in 1..n /\ pos[t] + 1 \in Int /\ (pos[t] + 1) - 1 = pos[t] /\ pos[t] \in Int
      BY <1>3, <2>3
    <3>3. f.p_ysptr[t] = made[pos[t] + 1] /\ made[pos[t] + 1] \in S
          /\ pos[made[pos[t] + 1]] = pos[t] + 1
      BY <1>4, <1>13, <2>1, <3>2
    <3>4. f.p_osptr[made[pos[t] + 1]] = Nth(pos[t])
      BY <1>8, <1>14, <3>2, <3>3
    <3> QED
      BY <1>3, <1>13, <2>1, <3>1, <3>2, <3>3, <3>4
  <2> QED
    BY <2>2, <2>3
<1>17. Tree(f, S)
  BY <1>3, <1>15, <1>16 DEF Tree
<1> QED
  BY <1>9, <1>12, <1>14, <1>17

LEMMA InitInv == Init => IInv
<1> SUFFICES ASSUME Init PROVE IInv
  OBVIOUS
<1>1. PICK u \in Slots \ Root :
        /\ fam = Offspring(SetToSeq(Root \cup {u}))
        /\ state = [t \in Tasks |-> IF t \in Root \cup {u, init} THEN "TASK_RUNNING" ELSE "free"]
        /\ exit_code = [t \in Tasks |-> "0"]
        /\ exit_signal = [t \in Tasks |-> IF t \in Root \cup {u} THEN "SIGCHLD" ELSE "none"]
        /\ flags = [t \in Tasks |-> {}]
        /\ signal = [t \in Tasks |-> {}]
        /\ pc = [t \in Tasks |-> "user"]
        /\ arg = [t \in Tasks |-> NULL]
  BY DEF Init
<1> DEFINE S == Root \cup {u}
<1>2. S \in SUBSET Slots /\ S # {} /\ init \notin Slots /\ init \in Tasks /\ Slots \subseteq Tasks
  BY ConstantsTypes
<1>3. /\ Tree(fam, S) /\ fam \in Families
      /\ \A t \in S : fam.p_pptr[t] = init /\ fam.p_opptr[t] = init
  <2> HIDE DEF S
  <2>1. fam = Offspring(SetToSeq(S))
    BY <1>1 DEF S
  <2> QED
    BY <1>2, <2>1, OffspringTree
<1>4. \A t \in Tasks : /\ state[t] = IF t \in Root \cup {u, init} THEN "TASK_RUNNING" ELSE "free"
                       /\ pc[t] = "user" /\ flags[t] = {} /\ signal[t] = {}
  BY <1>1
<1>5. Alive = S
  BY <1>2, <1>4 DEF Alive, Live
<1>6. TypeOK
  BY <1>1, <1>3 DEF TypeOK, States, Places
<1>7. Control /\ InitOnlyWaits
  BY <1>2, <1>4 DEF Control, InitOnlyWaits, Traced
<1>8. Parents /\ Fostered
  BY <1>2, <1>3, <1>4, <1>5 DEF Parents, Fostered, Able
<1>9. Forking /\ Reaping /\ Reporting /\ Waiting
  BY <1>4 DEF Forking, Reaping, Reporting, Waiting
<1>10. InitCanReap
  BY <1>2, <1>4 DEF InitCanReap, Children
<1> QED
  BY <1>3, <1>5, <1>6, <1>7, <1>8, <1>9, <1>10 DEF IInv

-----------------------------------------------------------------------------
(* What keeps the parts of the invariant.                                  *)

\* The links stay, and whoever can be a parent still can.
SameFamily ==
    /\ fam' = fam /\ Alive' = Alive
    /\ \A t \in Tasks : /\ Able(t) => Able(t)'
                        /\ pc'[t] = "exit_iput" <=> pc[t] = "exit_iput"
                        /\ Traced(t) => Traced(t)'

\* Who has a task in hand had it before.
SameHands ==
    \A q \in Tasks : pc'[q] \in {"fork", "reap", "report"} =>
        /\ pc'[q] = pc[q] /\ arg'[q] = arg[q]
        /\ pc[q] # "report" => state'[arg[q]] = state[arg[q]]

Asleep(q) == pc[q] = "wait4" /\ state[q] = "TASK_INTERRUPTIBLE"

\* Nobody goes to sleep in wait4.
StillAsleep == \A q \in Tasks : Asleep(q)' => Asleep(q) /\ arg'[q] = arg[q]

\* A child of a sleeper has nothing to report, or nothing new.
Silent(c) ==
    \/ state'[c] \notin {"TASK_ZOMBIE", "TASK_STOPPED"}
    \/ state'[c] = "TASK_STOPPED" /\ exit_code'[c] = "0"
    \/ state'[c] = "TASK_STOPPED" /\ ~Traced(c)' /\ fam'.p_pptr[c] = init
AsBefore(c) ==
    /\ Live(c) /\ fam'.p_pptr[c] = fam.p_pptr[c]
    /\ state'[c] = state[c] /\ (exit_code'[c] = exit_code[c] \/ state[c] = "TASK_ZOMBIE")
    /\ exit_signal'[c] = exit_signal[c] /\ flags'[c] = flags[c]
NothingNew ==
    \A c \in Slots : Live(c)' /\ Asleep(fam.p_pptr[c])' => Silent(c) \/ AsBefore(c)

\* init gets no zombie that it would not wait for.
Awaited(c) == state[c] = "TASK_ZOMBIE" /\ fam.p_pptr[c] = init => exit_signal[c] = "SIGCHLD"
NoStrayZombie == \A c \in Slots : Awaited(c) => Awaited(c)'

LEMMA FamilyKept ==
    ASSUME IInv, SameFamily
    PROVE  Tree(fam, Alive)' /\ Parents' /\ Fostered'
<1>1. fam' = fam /\ Alive' = Alive /\ Alive \subseteq Tasks
  BY ConstantsTypes DEF SameFamily, Alive
<1>2. Tree(fam, Alive)'
  BY <1>1 DEF IInv
<1>3. Parents'
  BY <1>1 DEF IInv, Parents, SameFamily
<1>4. Fostered'
  <2> SUFFICES ASSUME NEW t \in Alive, fam.p_pptr[t] \notin {fam.p_opptr[t], init}
               PROVE  Traced(t)' \/ pc'[fam.p_pptr[t]] = "exit_iput"
    BY <1>1 DEF Fostered
  <2>1. Traced(t) \/ pc[fam.p_pptr[t]] = "exit_iput"
    BY DEF IInv, Fostered
  <2>2. fam.p_pptr[t] \in Tasks
    BY DEF IInv, Parents
  <2> QED
    BY <1>1, <2>1, <2>2 DEF SameFamily
<1> QED
  BY <1>2, <1>3, <1>4

LEMMA HandsKept ==
    ASSUME IInv, SameFamily, SameHands
    PROVE  Forking' /\ Reaping' /\ Reporting'
<1>1. fam' = fam /\ Alive' = Alive /\ Alive \subseteq Tasks
  BY ConstantsTypes DEF SameFamily, Alive
<1>2. Forking'
  <2> SUFFICES ASSUME NEW q \in Tasks, pc'[q] = "fork"
               PROVE  arg'[q] \in Slots /\ state'[arg'[q]] = "TASK_UNINTERRUPTIBLE" /\ fam.p_pptr[arg'[q]] = q
    BY <1>1 DEF Forking
  <2>1. pc[q] = "fork" /\ arg'[q] = arg[q] /\ state'[arg[q]] = state[arg[q]]
    BY DEF SameHands
  <2> QED
    BY <2>1 DEF IInv, Forking
<1>3. Reaping'
  <2> SUFFICES ASSUME NEW q \in Tasks, pc'[q] = "reap"
               PROVE  arg'[q] \in Slots /\ state'[arg'[q]] = "TASK_ZOMBIE" /\ fam.p_pptr[arg'[q]] = q
    BY <1>1 DEF Reaping
  <2>1. pc[q] = "reap" /\ arg'[q] = arg[q] /\ state'[arg[q]] = state[arg[q]]
    BY DEF SameHands
  <2> QED
    BY <2>1 DEF IInv, Reaping
<1>4. Reporting'
  <2> SUFFICES ASSUME NEW q \in Tasks, pc'[q] = "report"
               PROVE  /\ arg'[q] \in Alive
                      /\ \/ fam.p_opptr[arg'[q]] = q
                         \/ fam.p_pptr[arg'[q]] = q /\ "PF_PTRACED" \in flags'[arg'[q]]
    BY <1>1 DEF Reporting, Traced
  <2>1. pc[q] = "report" /\ arg'[q] = arg[q]
    BY DEF SameHands
  <2>2. PICK c : c = arg[q]
    OBVIOUS
  <2>3. c \in Alive /\ (fam.p_opptr[c] = q \/ (fam.p_pptr[c] = q /\ Traced(c)))
    BY <2>1, <2>2 DEF IInv, Reporting, Traced
  <2>4. Traced(c) => Traced(c)'
    BY <1>1, <2>3 DEF SameFamily
  <2> QED
    BY <2>1, <2>2, <2>3, <2>4 DEF Traced
<1> QED
  BY <1>2, <1>3, <1>4

LEMMA WaitersKept ==
    ASSUME IInv, InitOnlyWaits', StillAsleep, NothingNew
    PROVE  Waiting'
<1> SUFFICES ASSUME NEW q \in Tasks, Asleep(q)', NEW c \in Slots, Live(c)', fam'.p_pptr[c] = q,
                    Reportable(c, arg[q])'
             PROVE  FALSE
  BY DEF Waiting, Asleep, Children
<1>1. Asleep(q) /\ arg'[q] = arg[q]
  BY DEF StillAsleep
<1>2. Silent(c) \/ AsBefore(c)
  BY DEF NothingNew
<1>3. CASE Silent(c)
  <2>1. /\ state'[c] \in {"TASK_ZOMBIE", "TASK_STOPPED"}
        /\ state'[c] = "TASK_STOPPED" => exit_code'[c] # "0" /\ ("WUNTRACED" \in arg'[q] \/ Traced(c)')
    BY DEF Reportable
  <2>2. q = init => arg'[q] = {}
    BY DEF InitOnlyWaits, Asleep
  <2> QED
    BY <1>3, <2>1, <2>2 DEF Silent
<1>4. CASE AsBefore(c)
  <2>1. c \in Children(q) /\ Reportable(c, arg[q])
    BY <1>1, <1>4 DEF AsBefore, Children, Reportable, Matches, Traced
  <2> QED
    BY <1>1, <2>1 DEF IInv, Waiting, Asleep
<1> QED
  BY <1>2, <1>3, <1>4

LEMMA ZombiesKept ==
    ASSUME IInv, NoStrayZombie
    PROVE  InitCanReap'
<1>1. \A c \in Slots : Awaited(c)
  BY DEF IInv, InitCanReap, Awaited, Children, Live
<1>2. \A c \in Slots : Awaited(c)'
  BY <1>1 DEF NoStrayZombie
<1> QED
  BY <1>2 DEF InitCanReap, Awaited, Children

-----------------------------------------------------------------------------
(* Steps that change no link.                                              *)

\* p goes on, or back, to user mode or into do_exit.
Steps(p, l) ==
    /\ pc' = [pc EXCEPT ![p] = l] /\ arg' = [arg EXCEPT ![p] = NULL]
    /\ state' = [state EXCEPT ![p] = "TASK_RUNNING"]
    /\ fam' = fam /\ exit_signal' = exit_signal /\ flags' = flags
    /\ DOMAIN exit_code' = Tasks /\ DOMAIN signal' = Tasks /\ signal'[init] = {}
    /\ \A t \in Tasks \ {p} : exit_code'[t] \in {exit_code[t], "0"}

LEMMA StepsInv ==
    ASSUME IInv, NEW p \in Tasks, state[p] \in {"TASK_RUNNING", "TASK_INTERRUPTIBLE"},
           pc[p] # "exit_iput", NEW l \in {"user", "exit"}, p = init => l = "user", Steps(p, l)
    PROVE  IInv'
<1>0. init \in Tasks /\ init \notin Slots /\ Slots \subseteq Tasks
  BY ConstantsTypes
<1>1. TypeOK
  BY DEF IInv
<1>2. /\ \A t \in Tasks : /\ pc'[t] = IF t = p THEN l ELSE pc[t]
                          /\ arg'[t] = IF t = p THEN NULL ELSE arg[t]
                          /\ state'[t] = IF t = p THEN "TASK_RUNNING" ELSE state[t]
                          /\ Traced(t)' <=> Traced(t)
  BY <1>1 DEF Steps, TypeOK, Traced
<1>3. TypeOK'
  BY <1>1 DEF Steps, TypeOK, Places, States
<1>4. Control'
  BY <1>2 DEF IInv, Control
<1>5. InitOnlyWaits'
  BY <1>0, <1>2 DEF IInv, InitOnlyWaits, Steps
<1>6. SameFamily
  <2>1. Alive' = Alive
    BY <1>0, <1>2 DEF Alive, Live
  <2>2. \A t \in Tasks : /\ Able(t) => Able(t)'
                         /\ pc'[t] = "exit_iput" <=> pc[t] = "exit_iput"
    BY <1>2 DEF Able
  <2> QED
    BY <1>2, <2>1, <2>2 DEF SameFamily, Steps
<1>7. SameHands
  <2> SUFFICES ASSUME NEW q \in Tasks, pc'[q] \in {"fork", "reap", "report"}
               PROVE  /\ pc'[q] = pc[q] /\ arg'[q] = arg[q]
                      /\ pc[q] # "report" => state'[arg[q]] = state[arg[q]]
    BY DEF SameHands
  <2>1. pc'[q] = pc[q] /\ arg'[q] = arg[q]
    BY <1>2
  <2>2. pc[q] # "report" => arg[q] \in Slots /\ state[arg[q]] \in {"TASK_UNINTERRUPTIBLE", "TASK_ZOMBIE"}
    BY <2>1 DEF IInv, Forking, Reaping
  <2> QED
    BY <1>0, <1>2, <2>1, <2>2
<1>8. StillAsleep
  BY <1>2 DEF StillAsleep, Asleep
<1>9. NothingNew
  <2> SUFFICES ASSUME NEW c \in Slots, Live(c)' PROVE Silent(c) \/ AsBefore(c)
    BY DEF NothingNew
  <2>1. CASE c = p
    BY <1>0, <1>2, <2>1 DEF Silent
  <2>2. CASE c # p
    <3>1. state'[c] = state[c] /\ exit_code'[c] \in {exit_code[c], "0"}
      BY <1>0, <1>2, <2>2 DEF Steps
    <3>2. CASE exit_code'[c] = exit_code[c]
      BY <3>1, <3>2 DEF AsBefore, Steps, Live
    <3>3. CASE exit_code'[c] = "0" /\ state[c] # "TASK_ZOMBIE"
      BY <3>1, <3>3 DEF Silent
    <3>4. CASE state[c] = "TASK_ZOMBIE"
      BY <3>1, <3>4 DEF AsBefore, Steps, Live
    <3> QED
      BY <3>1, <3>2, <3>3, <3>4
  <2> QED
    BY <2>1, <2>2
<1>10. NoStrayZombie
  BY <1>0, <1>2 DEF NoStrayZombie, Awaited, Steps
<1>11. Tree(fam, Alive)' /\ Parents' /\ Fostered' /\ Forking' /\ Reaping' /\ Reporting'
  BY <1>6, <1>7, FamilyKept, HandsKept
<1>12. Waiting' /\ InitCanReap'
  BY <1>5, <1>8, <1>9, <1>10, WaitersKept, ZombiesKept
<1> QED
  BY <1>3, <1>4, <1>5, <1>11, <1>12 DEF IInv

\* Another task makes t run again, or only clears its exit_code.
Continues(t, s, e) ==
    /\ pc' = pc /\ arg' = arg
    /\ state' = [state EXCEPT ![t] = s]
    /\ DOMAIN exit_code' = Tasks /\ exit_code'[t] = e
    /\ \A u \in Tasks \ {t} : exit_code'[u] = exit_code[u]
    /\ fam' = fam /\ exit_signal' = exit_signal /\ flags' = flags
    /\ DOMAIN signal' = Tasks /\ signal'[init] = {}

MayContinue(t, s, e) ==
    \/ s = state[t] /\ e \in {"0", exit_code[t]}
    \/ s = "TASK_RUNNING" /\ state[t] = "TASK_STOPPED"
    \/ s = "TASK_RUNNING" /\ Traced(t) /\ Live(t) /\ pc[fam.p_pptr[t]] = "user"

LEMMA ContinuesInv ==
    ASSUME IInv, NEW t \in Slots, NEW s, NEW e, Continues(t, s, e),
           MayContinue(t, s, e)
    PROVE  IInv'
<1>0. init \in Tasks /\ init \notin Slots /\ Slots \subseteq Tasks /\ t \in Tasks
  BY ConstantsTypes
<1>1. TypeOK
  BY DEF IInv
<1>2. \/ s = state[t] /\ e \in {"0", exit_code[t]}
      \/ s = "TASK_RUNNING" /\ state[t] \notin {"free", "TASK_UNINTERRUPTIBLE"}
  BY <1>0 DEF IInv, Control, Live, MayContinue
<1>3. /\ pc' = pc /\ arg' = arg /\ flags' = flags /\ state'[t] = s /\ exit_code'[t] = e
      /\ \A u \in Tasks \ {t} : state'[u] = state[u] /\ exit_code'[u] = exit_code[u]
  <2>1. pc' = pc /\ arg' = arg /\ flags' = flags
    BY DEF Continues
  <2>2. state'[t] = s /\ \A u \in Tasks \ {t} : state'[u] = state[u]
    BY <1>0, <1>1 DEF Continues, TypeOK
  <2>3. exit_code'[t] = e /\ \A u \in Tasks \ {t} : exit_code'[u] = exit_code[u]
    BY <1>0, <1>1 DEF Continues, TypeOK
  <2> QED
    BY <2>1, <2>2, <2>3
<1>4. TypeOK'
  <2>1. s \in States
    BY <1>0, <1>1, <1>2 DEF TypeOK, States
  <2>2. state' \in [Tasks -> States]
    BY <1>1, <2>1 DEF TypeOK, Continues
  <2> QED
    BY <1>1, <2>2 DEF Continues, TypeOK
<1>5. Control'
  BY <1>0, <1>2, <1>3 DEF IInv, Control, Traced
<1>6. InitOnlyWaits'
  BY <1>0, <1>3 DEF IInv, InitOnlyWaits, Continues, Traced
<1>7. SameFamily
  <2>1. Alive' = Alive
    BY <1>0, <1>2, <1>3 DEF Alive, Live
  <2>2. \A u \in Tasks : Able(u) => Able(u)'
    BY <1>0, <1>2, <1>3 DEF Able
  <2> QED
    BY <1>3, <2>1, <2>2 DEF SameFamily, Continues, Traced
<1>8. SameHands
  <2> SUFFICES ASSUME NEW q \in Tasks, pc'[q] \in {"fork", "reap"}
               PROVE  state'[arg[q]] = state[arg[q]]
    BY <1>3 DEF SameHands
  <2>1. /\ arg[q] \in Slots /\ fam.p_pptr[arg[q]] = q
        /\ state[arg[q]] \in {"TASK_UNINTERRUPTIBLE", "TASK_ZOMBIE"}
        /\ pc[q] = "fork" => state[arg[q]] = "TASK_UNINTERRUPTIBLE"
    BY <1>3 DEF IInv, Forking, Reaping
  <2>2. CASE arg[q] # t
    BY <1>0, <1>3, <2>1, <2>2
  <2>3. CASE arg[q] = t
    <3>1. s = state[t] \/ pc[q] = "user"
      BY <2>1, <2>3 DEF MayContinue
    <3> QED
      BY <1>0, <1>3, <2>1, <2>3, <3>1
  <2> QED
    BY <2>2, <2>3
<1>9. StillAsleep
  BY <1>0, <1>2, <1>3 DEF StillAsleep, Asleep
<1>10. NothingNew
  <2> SUFFICES ASSUME NEW c \in Slots, Live(c)' PROVE Silent(c) \/ AsBefore(c)
    BY DEF NothingNew
  <2>1. CASE s = "TASK_RUNNING" /\ c = t
    BY <1>0, <1>3, <2>1 DEF Silent
  <2>2. CASE c # t
    BY <1>0, <1>3, <2>2 DEF AsBefore, Continues, Live
  <2>3. CASE c = t /\ s = state[t] /\ e = exit_code[t]
    BY <1>0, <1>3, <2>3 DEF AsBefore, Continues, Live
  <2>4. CASE c = t /\ s = state[t] /\ e = "0"
    <3>1. CASE s = "TASK_ZOMBIE"
      BY <1>0, <1>3, <2>4, <3>1 DEF AsBefore, Continues, Live
    <3>2. CASE s # "TASK_ZOMBIE"
      BY <1>0, <1>3, <2>4, <3>2 DEF Silent
    <3> QED
      BY <3>1, <3>2
  <2> QED
    BY <1>2, <2>1, <2>2, <2>3, <2>4
<1>11. NoStrayZombie
  BY <1>0, <1>2, <1>3 DEF NoStrayZombie, Awaited, Continues
<1>12. Tree(fam, Alive)' /\ Parents' /\ Fostered' /\ Forking' /\ Reaping' /\ Reporting'
  BY <1>7, <1>8, FamilyKept, HandsKept
<1>13. Waiting' /\ InitCanReap'
  BY <1>6, <1>9, <1>10, <1>11, WaitersKept, ZombiesKept
<1> QED
  BY <1>4, <1>5, <1>6, <1>12, <1>13 DEF IInv

\* p stops, and its parent is woken.
LEMMA StopInv ==
    ASSUME IInv, NEW p \in Slots, Running(p, "user"), NEW sig, NEW l \in {"traced", "stopped"},
           Stop(p, sig, l)
    PROVE  IInv'
<1> DEFINE q == fam.p_pptr[p]
           st == [state EXCEPT ![p] = "TASK_STOPPED"]
<1>0. init \in Tasks /\ init \notin Slots /\ Slots \subseteq Tasks /\ p \in Tasks
  BY ConstantsTypes
<1>1. TypeOK /\ pc[p] = "user" /\ state[p] = "TASK_RUNNING"
  BY DEF IInv, Running
<1>2. p \in Alive /\ q \in Tasks /\ q # p /\ Able(q)
  BY <1>1 DEF IInv, Parents, Alive, Live
<1>3. /\ pc' = [pc EXCEPT ![p] = l] /\ arg' = [arg EXCEPT ![p] = NULL]
      /\ state' = Wake(st, q) /\ fam' = fam /\ flags' = flags
      /\ exit_signal' = ToldAs({p}, q)
      /\ exit_code' = [exit_code EXCEPT ![p] = sig]
      /\ signal' = [Told({p}, q, ToldAs({p}, q)) EXCEPT ![p] = @ \ {sig}]
  BY DEF Stop, Goto
<1>4. /\ st \in [Tasks -> States] /\ st[p] = "TASK_STOPPED"
      /\ \A t \in Tasks \ {p} : st[t] = state[t]
  BY <1>0, <1>1 DEF TypeOK, States
<1>5. /\ state' \in [Tasks -> States] /\ state'[p] = "TASK_STOPPED"
      /\ \A t \in Tasks \ {p, q} : state'[t] = state[t]
      /\ state'[q] = IF state[q] = "TASK_INTERRUPTIBLE" THEN "TASK_RUNNING" ELSE state[q]
  <2> HIDE DEF st, q
  <2> QED
    BY <1>0, <1>2, <1>3, <1>4 DEF Wake, States
<1>6. /\ pc' \in [Tasks -> Places] /\ pc'[p] = l /\ \A t \in Tasks \ {p} : pc'[t] = pc[t]
      /\ DOMAIN arg' = Tasks /\ \A t \in Tasks \ {p} : arg'[t] = arg[t]
  BY <1>0, <1>1, <1>3 DEF TypeOK, Places
<1>7. /\ exit_signal' \in [Tasks -> {"SIGCHLD", "none"}]
      /\ \A t \in Tasks \ {p} : exit_signal'[t] = exit_signal[t]
      /\ q = init => exit_signal'[p] = "SIGCHLD"
  BY <1>0, <1>1, <1>3 DEF TypeOK, ToldAs
<1>8. DOMAIN exit_code' = Tasks /\ \A t \in Tasks \ {p} : exit_code'[t] = exit_code[t]
  BY <1>0, <1>1, <1>3 DEF TypeOK
<1>9. DOMAIN signal' = Tasks /\ signal'[init] = {}
  <2>1. signal[init] = {} /\ ~Traced(init) /\ DOMAIN signal = Tasks
    BY DEF IInv, InitOnlyWaits, TypeOK
  <2>2. PICK told : told = Told({p}, q, ToldAs({p}, q))
    OBVIOUS
  <2>3. DOMAIN told = Tasks /\ told[init] = {}
    <3>1. generate("SIGCHLD", init, {}) = {}
      BY <2>1 DEF generate
    <3>2. CASE told = signal
      BY <2>1, <3>2
    <3>3. CASE told = [signal EXCEPT ![q] = generate("SIGCHLD", q, signal[q])]
      BY <1>0, <1>2, <2>1, <3>1, <3>3
    <3> QED
      BY <2>2, <3>2, <3>3 DEF Told
  <2> QED
    BY <1>0, <1>3, <2>2, <2>3
<1> HIDE DEF q, st
<1>10. TypeOK'
  BY <1>1, <1>3, <1>5, <1>6, <1>7, <1>8, <1>9 DEF TypeOK
<1>11. Control'
  BY <1>0, <1>1, <1>2, <1>3, <1>5, <1>6 DEF IInv, Control, Traced
<1>12. InitOnlyWaits'
  BY <1>0, <1>2, <1>3, <1>5, <1>6, <1>9 DEF IInv, InitOnlyWaits, Traced
<1>13. SameFamily
  <2>1. Alive' = Alive
    BY <1>0, <1>1, <1>2, <1>5 DEF Alive, Live
  <2>2. \A t \in Tasks : Able(t) => Able(t)'
    BY <1>0, <1>2, <1>5, <1>6 DEF Able
  <2>3. \A t \in Tasks : pc'[t] = "exit_iput" <=> pc[t] = "exit_iput"
    BY <1>1, <1>6
  <2> QED
    BY <1>3, <2>1, <2>2, <2>3 DEF SameFamily, Traced
<1>14. SameHands
  <2> SUFFICES ASSUME NEW r \in Tasks, pc'[r] \in {"fork", "reap", "report"}
               PROVE  /\ pc'[r] = pc[r] /\ arg'[r] = arg[r]
                      /\ pc[r] # "report" => state'[arg[r]] = state[arg[r]]
    BY DEF SameHands
  <2>1. pc'[r] = pc[r] /\ arg'[r] = arg[r]
    BY <1>6
  <2>2. pc[r] # "report" => arg[r] \in Slots /\ state[arg[r]] \in {"TASK_UNINTERRUPTIBLE", "TASK_ZOMBIE"}
    BY <2>1 DEF IInv, Forking, Reaping
  <2> QED
    BY <1>0, <1>1, <1>2, <1>5, <2>1, <2>2
<1>15. StillAsleep
  BY <1>0, <1>2, <1>5, <1>6 DEF StillAsleep, Asleep
<1>16. NothingNew
  <2> SUFFICES ASSUME NEW c \in Slots, Live(c)', Asleep(fam.p_pptr[c])' PROVE Silent(c) \/ AsBefore(c)
    BY DEF NothingNew
  <2>1. c # p
    BY <1>2, <1>3, <1>5 DEF Asleep, q
  <2>2. CASE c = q /\ state[c] = "TASK_INTERRUPTIBLE"
    BY <1>5, <2>2 DEF Silent
  <2>3. CASE ~(c = q /\ state[c] = "TASK_INTERRUPTIBLE")
    <3>1. state'[c] = state[c]
      BY <1>0, <1>2, <1>5, <2>1, <2>3
    <3> QED
      BY <1>0, <1>3, <1>7, <1>8, <2>1, <3>1 DEF AsBefore, Live
  <2> QED
    BY <2>2, <2>3
<1>17. NoStrayZombie
  BY <1>0, <1>1, <1>2, <1>3, <1>5, <1>7 DEF NoStrayZombie, Awaited
<1>18. Tree(fam, Alive)' /\ Parents' /\ Fostered' /\ Forking' /\ Reaping' /\ Reporting'
  BY <1>13, <1>14, FamilyKept, HandsKept
<1>19. Waiting' /\ InitCanReap'
  BY <1>12, <1>15, <1>16, <1>17, WaitersKept, ZombiesKept
<1> QED
  BY <1>10, <1>11, <1>12, <1>18, <1>19 DEF IInv

\* p asks to be traced.
LEMMA TraceMeInv ==
    ASSUME IInv, NEW p \in Slots, PTRACE_TRACEME(p)
    PROVE  IInv'
<1>0. init \in Tasks /\ init \notin Slots /\ Slots \subseteq Tasks /\ p \in Tasks
  BY ConstantsTypes
<1>1. TypeOK /\ pc[p] = "user" /\ state[p] = "TASK_RUNNING"
  BY DEF IInv, PTRACE_TRACEME, InUser, Running
<1>2. /\ fam' = fam /\ state' = state /\ exit_code' = exit_code /\ exit_signal' = exit_signal
      /\ signal' = signal /\ pc' = pc /\ arg' = arg /\ flags' = [flags EXCEPT ![p] = {"PF_PTRACED"}]
  BY DEF PTRACE_TRACEME
<1>3. /\ flags' \in [Tasks -> SUBSET {"PF_PTRACED"}]
      /\ flags'[p] = {"PF_PTRACED"}
      /\ \A t \in Tasks \ {p} : flags'[t] = flags[t]
  BY <1>0, <1>1, <1>2 DEF TypeOK
<1>4. TypeOK'
  BY <1>1, <1>2, <1>3 DEF TypeOK
<1>5. Control'
  BY <1>1, <1>2, <1>3 DEF IInv, Control, Traced
<1>6. InitOnlyWaits'
  BY <1>0, <1>2, <1>3 DEF IInv, InitOnlyWaits, Traced
<1>7. SameFamily
  BY <1>2, <1>3 DEF SameFamily, Alive, Live, Able, Traced
<1>8. SameHands
  BY <1>2 DEF SameHands
<1>9. StillAsleep
  BY <1>2 DEF StillAsleep, Asleep
<1>10. NothingNew
  <2> SUFFICES ASSUME NEW c \in Slots, Live(c)' PROVE Silent(c) \/ AsBefore(c)
    BY DEF NothingNew
  <2>1. CASE c = p
    BY <1>1, <1>2, <2>1 DEF Silent
  <2>2. CASE c # p
    BY <1>0, <1>2, <1>3, <2>2 DEF AsBefore, Live
  <2> QED
    BY <2>1, <2>2
<1>11. NoStrayZombie
  BY <1>2 DEF NoStrayZombie, Awaited
<1>12. Tree(fam, Alive)' /\ Parents' /\ Fostered' /\ Forking' /\ Reaping' /\ Reporting'
  BY <1>7, <1>8, FamilyKept, HandsKept
<1>13. Waiting' /\ InitCanReap'
  BY <1>6, <1>9, <1>10, <1>11, WaitersKept, ZombiesKept
<1> QED
  BY <1>4, <1>5, <1>6, <1>12, <1>13 DEF IInv

\* p has found the child c and goes to write its status.
LEMMA FoundInv ==
    ASSUME IInv, NEW p \in Tasks, state[p] \in {"TASK_RUNNING", "TASK_INTERRUPTIBLE"},
           pc[p] \in {"user", "wait4"}, NEW opt, p = init => opt = {},
           NEW c \in Alive, fam.p_pptr[c] = p, Reportable(c, opt),
           pc' = [pc EXCEPT ![p] = IF state[c] = "TASK_ZOMBIE" THEN "reap" ELSE "report"],
           arg' = [arg EXCEPT ![p] = c], state' = [state EXCEPT ![p] = "TASK_RUNNING"],
           signal' = [signal EXCEPT ![p] = {}],
           UNCHANGED <<fam, exit_code, exit_signal, flags>>
    PROVE  IInv'
<1>0. init \in Tasks /\ init \notin Slots /\ Slots \subseteq Tasks
  BY ConstantsTypes
<1>1. TypeOK /\ c \in Slots /\ c \in Tasks
  BY <1>0 DEF IInv, Alive
<1> DEFINE l == IF state[c] = "TASK_ZOMBIE" THEN "reap" ELSE "report"
<1>2. l \in {"reap", "report"}
  OBVIOUS
<1>3. /\ pc' \in [Tasks -> Places] /\ pc'[p] = l /\ \A t \in Tasks \ {p} : pc'[t] = pc[t]
      /\ DOMAIN arg' = Tasks /\ arg'[p] = c /\ \A t \in Tasks \ {p} : arg'[t] = arg[t]
  BY <1>1, <1>2 DEF TypeOK, Places
<1>4. /\ state' \in [Tasks -> States] /\ state'[p] = "TASK_RUNNING"
      /\ \A t \in Tasks \ {p} : state'[t] = state[t]
      /\ DOMAIN signal' = Tasks /\ signal'[p] = {} /\ \A t \in Tasks \ {p} : signal'[t] = signal[t]
  BY <1>1 DEF TypeOK, States
<1>5. fam' = fam /\ exit_code' = exit_code /\ exit_signal' = exit_signal /\ flags' = flags
  OBVIOUS
<1>6. c # p
  BY DEF IInv, Parents
<1>7. /\ state[c] = "TASK_ZOMBIE" \/ state[c] = "TASK_STOPPED"
      /\ state[c] # "TASK_ZOMBIE" => "WUNTRACED" \in opt \/ Traced(c)
  BY DEF Reportable
<1>8. fam.p_opptr[c] = p \/ state[c] = "TASK_ZOMBIE" \/ Traced(c)
  <2> SUFFICES ASSUME state[c] # "TASK_ZOMBIE", ~Traced(c), fam.p_opptr[c] # p PROVE FALSE
    OBVIOUS
  <2>1. p # init
    BY <1>7
  <2>2. pc[p] = "exit_iput"
    BY <2>1 DEF IInv, Fostered
  <2> QED
    BY <2>2
<1> HIDE DEF l
<1>9. TypeOK'
  BY <1>1, <1>3, <1>4, <1>5 DEF TypeOK
<1>10. Control'
  BY <1>2, <1>3, <1>4, <1>5 DEF IInv, Control, Traced
<1>11. InitOnlyWaits'
  BY <1>0, <1>2, <1>3, <1>4, <1>5 DEF IInv, InitOnlyWaits, Traced
<1>12. SameFamily
  <2>1. Alive' = Alive
    BY <1>0, <1>4 DEF Alive, Live
  <2>2. \A t \in Tasks : /\ Able(t) => Able(t)'
                         /\ pc'[t] = "exit_iput" <=> pc[t] = "exit_iput"
    BY <1>2, <1>3, <1>4 DEF Able
  <2> QED
    BY <1>5, <2>1, <2>2 DEF SameFamily, Traced
<1>13. Tree(fam, Alive)' /\ Parents' /\ Fostered'
  BY <1>12, FamilyKept
<1>14. ASSUME NEW q \in Tasks, q # p, pc'[q] \in {"fork", "reap"}
       PROVE  /\ pc'[q] = pc[q] /\ arg'[q] = arg[q] /\ state'[arg[q]] = state[arg[q]]
              /\ arg[q] \in Slots /\ fam.p_pptr[arg[q]] = q
              /\ pc[q] = "fork" => state[arg[q]] = "TASK_UNINTERRUPTIBLE"
              /\ pc[q] = "reap" => state[arg[q]] = "TASK_ZOMBIE"
  <2>1. pc'[q] = pc[q] /\ arg'[q] = arg[q]
    BY <1>3, <1>14
  <2>2. /\ arg[q] \in Slots /\ fam.p_pptr[arg[q]] = q
        /\ pc[q] = "fork" => state[arg[q]] = "TASK_UNINTERRUPTIBLE"
        /\ pc[q] = "reap" => state[arg[q]] = "TASK_ZOMBIE"
    BY <1>14, <2>1 DEF IInv, Forking, Reaping
  <2>3. arg[q] # p
    BY <1>14, <2>1, <2>2
  <2> QED
    BY <1>0, <1>4, <2>1, <2>2, <2>3
<1>15. Forking'
  BY <1>2, <1>3, <1>5, <1>14 DEF Forking
<1>16. Reaping'
  <2> SUFFICES ASSUME NEW q \in Tasks, pc'[q] = "reap"
               PROVE  arg'[q] \in Slots /\ state'[arg'[q]] = "TASK_ZOMBIE" /\ fam.p_pptr[arg'[q]] = q
    BY <1>5 DEF Reaping
  <2>1. CASE q # p
    BY <1>14, <2>1
  <2>2. CASE q = p
    BY <1>1, <1>3, <1>4, <1>6, <2>2 DEF l
  <2> QED
    BY <2>1, <2>2
<1>17. Reporting'
  <2> SUFFICES ASSUME NEW q \in Tasks, pc'[q] = "report"
               PROVE  /\ arg'[q] \in Alive'
                      /\ \/ fam.p_opptr[arg'[q]] = q
                         \/ fam.p_pptr[arg'[q]] = q /\ "PF_PTRACED" \in flags[arg'[q]]
    BY <1>5 DEF Reporting, Traced
  <2>1. Alive' = Alive
    BY <1>12 DEF SameFamily
  <2>2. CASE q # p
    BY <1>3, <2>1, <2>2 DEF IInv, Reporting, Traced
  <2>3. CASE q = p
    BY <1>3, <1>8, <2>1, <2>3 DEF l, Traced
  <2> QED
    BY <2>2, <2>3
<1>18. StillAsleep
  BY <1>3, <1>4 DEF StillAsleep, Asleep
<1>19. NothingNew
  <2> SUFFICES ASSUME NEW x \in Slots, Live(x)' PROVE Silent(x) \/ AsBefore(x)
    BY DEF NothingNew
  <2>1. CASE x = p
    BY <1>4, <2>1 DEF Silent
  <2>2. CASE x # p
    BY <1>0, <1>4, <1>5, <2>2 DEF AsBefore, Live
  <2> QED
    BY <2>1, <2>2
<1>20. NoStrayZombie
  BY <1>0, <1>4, <1>5 DEF NoStrayZombie, Awaited
<1>21. Waiting' /\ InitCanReap'
  BY <1>11, <1>18, <1>19, <1>20, WaitersKept, ZombiesKept
<1> QED
  BY <1>9, <1>10, <1>11, <1>13, <1>15, <1>16, <1>17, <1>21 DEF IInv

\* p has nothing to report, and sleeps.
LEMMA SleepInv ==
    ASSUME IInv, NEW p \in Tasks, state[p] \in {"TASK_RUNNING", "TASK_INTERRUPTIBLE"},
           pc[p] \in {"user", "wait4"}, NEW opt, p = init => opt = {},
           \A c \in Children(p) : ~Reportable(c, opt),
           pc' = [pc EXCEPT ![p] = "wait4"],
           arg' = [arg EXCEPT ![p] = opt], state' = [state EXCEPT ![p] = "TASK_INTERRUPTIBLE"],
           signal' = [signal EXCEPT ![p] = {}],
           UNCHANGED <<fam, exit_code, exit_signal, flags>>
    PROVE  IInv'
<1>0. init \in Tasks /\ init \notin Slots /\ Slots \subseteq Tasks
  BY ConstantsTypes
<1>1. TypeOK
  BY <1>0 DEF IInv, Alive
<1>3. /\ pc' \in [Tasks -> Places] /\ pc'[p] = "wait4" /\ \A t \in Tasks \ {p} : pc'[t] = pc[t]
      /\ DOMAIN arg' = Tasks /\ arg'[p] = opt /\ \A t \in Tasks \ {p} : arg'[t] = arg[t]
  BY <1>1 DEF TypeOK, Places
<1>4. /\ state' \in [Tasks -> States] /\ state'[p] = "TASK_INTERRUPTIBLE"
      /\ \A t \in Tasks \ {p} : state'[t] = state[t]
      /\ DOMAIN signal' = Tasks /\ signal'[p] = {} /\ \A t \in Tasks \ {p} : signal'[t] = signal[t]
  BY <1>1 DEF TypeOK, States
<1>5. fam' = fam /\ exit_code' = exit_code /\ exit_signal' = exit_signal /\ flags' = flags
  OBVIOUS
<1>9. TypeOK'
  BY <1>1, <1>3, <1>4, <1>5 DEF TypeOK
<1>10. Control'
  BY <1>3, <1>4, <1>5 DEF IInv, Control, Traced
<1>11. InitOnlyWaits'
  BY <1>0, <1>3, <1>4, <1>5 DEF IInv, InitOnlyWaits, Traced
<1>12. SameFamily
  <2>1. Alive' = Alive
    BY <1>0, <1>4 DEF Alive, Live
  <2>2. \A t \in Tasks : /\ Able(t) => Able(t)'
                         /\ pc'[t] = "exit_iput" <=> pc[t] = "exit_iput"
    BY <1>3, <1>4 DEF Able
  <2> QED
    BY <1>5, <2>1, <2>2 DEF SameFamily, Traced
<1>13. SameHands
  <2> SUFFICES ASSUME NEW q \in Tasks, pc'[q] \in {"fork", "reap", "report"}
               PROVE  /\ pc'[q] = pc[q] /\ arg'[q] = arg[q]
                      /\ pc[q] # "report" => state'[arg[q]] = state[arg[q]]
    BY DEF SameHands
  <2>1. pc'[q] = pc[q] /\ arg'[q] = arg[q]
    BY <1>3
  <2>2. pc[q] # "report" => arg[q] \in Slots /\ state[arg[q]] \in {"TASK_UNINTERRUPTIBLE", "TASK_ZOMBIE"}
    BY <2>1 DEF IInv, Forking, Reaping
  <2> QED
    BY <1>0, <1>4, <2>1, <2>2
<1>14. Waiting'
  <2> SUFFICES ASSUME NEW q \in Tasks, pc'[q] = "wait4", state'[q] = "TASK_INTERRUPTIBLE",
                      NEW c \in Slots, Live(c)', fam.p_pptr[c] = q
               PROVE  ~Reportable(c, arg[q])'
    BY <1>5 DEF Waiting, Children
  <2>1. c # p => Live(c) /\ state'[c] = state[c]
    BY <1>0, <1>4 DEF Live
  <2>2. CASE c = p
    BY <1>4, <2>2 DEF Reportable
  <2>3. CASE c # p /\ q = p
    <3>1. ~Reportable(c, opt)
      BY <2>1, <2>3 DEF Children
    <3> QED
      BY <1>3, <1>5, <2>1, <2>3, <3>1 DEF Reportable, Matches, Traced
  <2>4. CASE c # p /\ q # p
    <3>1. pc[q] = "wait4" /\ state[q] = "TASK_INTERRUPTIBLE" /\ arg'[q] = arg[q]
      BY <1>3, <1>4, <2>4
    <3>2. ~Reportable(c, arg[q])
      BY <2>1, <2>4, <3>1 DEF IInv, Waiting, Children
    <3> QED
      BY <1>5, <2>1, <2>4, <3>1, <3>2 DEF Reportable, Matches, Traced
  <2> QED
    BY <2>2, <2>3, <2>4
<1>15. NoStrayZombie
  BY <1>0, <1>4, <1>5 DEF NoStrayZombie, Awaited
<1>16. Tree(fam, Alive)' /\ Parents' /\ Fostered' /\ Forking' /\ Reaping' /\ Reporting'
  BY <1>12, <1>13, FamilyKept, HandsKept
<1>17. InitCanReap'
  BY <1>15, ZombiesKept
<1> QED
  BY <1>9, <1>10, <1>11, <1>14, <1>16, <1>17 DEF IInv

\* One search of wait4.
LEMMA ScanInv ==
    ASSUME IInv, NEW p \in Tasks, state[p] \in {"TASK_RUNNING", "TASK_INTERRUPTIBLE"},
           pc[p] \in {"user", "wait4"}, NEW opt, p = init => opt = {}, Scan(p, opt, {})
    PROVE  IInv'
<1> DEFINE kid == Child(p)
           Hit(i) == kid[i] # NULL /\ Reportable(kid[i], opt)
           first == CHOOSE j \in 1..N : Hit(j) /\ \A k \in 1..j - 1 : ~Hit(k)
<1>0. N \in Nat /\ Alive \in SUBSET Slots /\ fam \in Families /\ Tree(fam, Alive) /\ NULL \notin Alive
  BY ConstantsTypes DEF Alive, IInv, TypeOK
<1>1. /\ \A i \in 1..N : kid[i] = NULL \/ (kid[i] \in Alive /\ fam.p_pptr[kid[i]] = p)
      /\ \A t \in Alive : fam.p_pptr[t] = p => \E i \in 1..N : kid[i] = t
  BY <1>0, ChildList
<1> HIDE DEF kid
<1>2. CASE \E i \in 1..N : Hit(i)
  <2>1. first \in 1..N /\ Hit(first)
    <3> DEFINE S == {i \in 1..N : Hit(i)}
    <3>1. S \subseteq Nat /\ S # {}
      BY <1>2
    <3>2. PICK m \in S : \A y \in S : m <= y
      BY <3>1, LeastNumber
    <3>3. m \in 1..N /\ Hit(m) /\ \A k \in 1..m - 1 : ~Hit(k)
      BY <1>0, <3>2
    <3> QED
      BY <3>3
  <2>2. /\ Goto(p, IF state[kid[first]] = "TASK_ZOMBIE" THEN "reap" ELSE "report", kid[first])
        /\ state' = [state EXCEPT ![p] = "TASK_RUNNING"]
        /\ signal' = [signal EXCEPT ![p] = {}]
        /\ UNCHANGED <<fam, exit_code, exit_signal, flags>>
    BY <1>2 DEF Scan, kid
  <2>3. PICK c : c = kid[first]
    OBVIOUS
  <2>4. c \in Alive /\ fam.p_pptr[c] = p /\ Reportable(c, opt)
    BY <1>1, <2>1, <2>3
  <2> HIDE DEF first
  <2>5. /\ pc' = [pc EXCEPT ![p] = IF state[c] = "TASK_ZOMBIE" THEN "reap" ELSE "report"]
        /\ arg' = [arg EXCEPT ![p] = c]
    BY <2>2, <2>3 DEF Goto
  <2> QED
    BY <2>2, <2>4, <2>5, FoundInv
<1>3. CASE (~\E i \in 1..N : Hit(i)) /\ pc' = [pc EXCEPT ![p] = "user"]
  <2>1. ~(\E i \in 1..N : Hit(i))
    BY <1>3
  <2>2. \/ Goto(p, "user", NULL) /\ state' = [state EXCEPT ![p] = "TASK_RUNNING"]
        \/ pc' = [pc EXCEPT ![p] = "wait4"]
    BY <2>1 DEF Scan, kid, Goto
  <2>3. pc' # [pc EXCEPT ![p] = "wait4"]
    BY <1>3 DEF IInv, TypeOK
  <2>4. Steps(p, "user")
    <3>1. /\ signal' = [signal EXCEPT ![p] = {}]
          /\ UNCHANGED <<fam, exit_code, exit_signal, flags>>
      BY DEF Scan
    <3>2. DOMAIN signal' = Tasks /\ signal'[init] = {}
      BY <3>1, ConstantsTypes DEF IInv, TypeOK, InitOnlyWaits
    <3> QED
      BY <2>2, <2>3, <3>1, <3>2 DEF Steps, Goto, IInv, TypeOK
  <2> QED
    BY <2>4, StepsInv
<1>4. CASE (~\E i \in 1..N : Hit(i)) /\ pc' # [pc EXCEPT ![p] = "user"]
  <2>1. ~(\E i \in 1..N : Hit(i))
    BY <1>4
  <2>2. Goto(p, "wait4", opt) /\ state' = [state EXCEPT ![p] = "TASK_INTERRUPTIBLE"]
    BY <1>4, <2>1 DEF Scan, kid, Goto
  <2>3. /\ signal' = [signal EXCEPT ![p] = {}]
        /\ UNCHANGED <<fam, exit_code, exit_signal, flags>>
    BY DEF Scan
  <2>4. \A c \in Children(p) : ~Reportable(c, opt)
    <3> SUFFICES ASSUME NEW c \in Children(p) PROVE ~Reportable(c, opt)
      OBVIOUS
    <3>1. c \in Alive /\ fam.p_pptr[c] = p
      BY DEF Children, Alive
    <3>2. PICK i \in 1..N : kid[i] = c
      BY <1>1, <3>1
    <3> QED
      BY <1>0, <2>1, <3>1, <3>2
  <2>5. pc' = [pc EXCEPT ![p] = "wait4"] /\ arg' = [arg EXCEPT ![p] = opt]
    BY <2>2 DEF Goto
  <2> QED
    BY <2>2, <2>3, <2>4, <2>5, SleepInv
<1> QED
  BY <1>2, <1>3, <1>4

LEMMA WaitInv ==
    ASSUME IInv, NEW p \in Tasks, NEW opt, p = init => opt = {}, sys_wait4(p, opt)
    PROVE  IInv'
  BY ScanInv DEF sys_wait4, InUser, Running

LEMMA WaitResumeInv ==
    ASSUME IInv, NEW p \in Tasks, WaitResume(p)
    PROVE  IInv'
<1>1. pc[p] = "wait4" /\ state[p] \in {"TASK_RUNNING", "TASK_INTERRUPTIBLE"}
  BY DEF WaitResume, IInv, Control, TypeOK, States
<1> DEFINE sig == signal[p] \ {"SIGCHLD"}
<1>2. CASE sig = {}
  <2>1. Scan(p, arg[p], {})
    BY <1>2 DEF WaitResume
  <2>2. PICK opt : opt = arg[p]
    OBVIOUS
  <2>3. p = init => opt = {}
    BY <1>1, <2>2 DEF IInv, InitOnlyWaits
  <2>4. Scan(p, opt, {})
    BY <2>1, <2>2
  <2> QED
    BY <1>1, <2>3, <2>4, ScanInv
<1>3. CASE sig # {}
  <2>1. /\ signal' = [signal EXCEPT ![p] = sig]
        /\ state' = [state EXCEPT ![p] = "TASK_RUNNING"]
        /\ Goto(p, "user", NULL)
        /\ UNCHANGED <<fam, exit_code, exit_signal, flags>>
    BY <1>3 DEF WaitResume
  <2>2. p # init /\ DOMAIN signal = Tasks /\ signal[init] = {} /\ init \in Tasks
    BY <1>3, ConstantsTypes DEF IInv, InitOnlyWaits, TypeOK
  <2>3. DOMAIN signal' = Tasks /\ signal'[init] = {}
    BY <2>1, <2>2
  <2>4. Steps(p, "user")
    BY <2>1, <2>3 DEF Steps, Goto, IInv, TypeOK
  <2> QED
    BY <1>1, <2>4, StepsInv
<1> QED
  BY <1>2, <1>3

\* p is RUNNING: to say so again changes nothing.
LEMMA RunningAgain ==
    ASSUME TypeOK, NEW p \in Tasks, state[p] = "TASK_RUNNING"
    PROVE  state = [state EXCEPT ![p] = "TASK_RUNNING"]
  BY DEF TypeOK

LEMMA SignalInv ==
    ASSUME IInv, NEW p \in Tasks, do_signal(p)
    PROVE  IInv'
<1>1. Running(p, "user") /\ signal[p] # {} /\ TypeOK
  BY DEF do_signal, IInv
<1>2. p \in Slots /\ p # init /\ init \in Tasks /\ signal[init] = {}
  BY <1>1, ConstantsTypes DEF IInv, InitOnlyWaits, Tasks
<1>3. PICK sig : sig = SelectSeq(SignalOrder, LAMBDA s : s \in signal[p])[1]
  OBVIOUS
<1>4. \/ Stop(p, sig, "traced") \/ Stop(p, sig, "stopped")
      \/ signal' = [signal EXCEPT ![p] = @ \ {sig}] /\ Default(p, sig) /\ exit_code' = exit_code
  BY <1>3 DEF do_signal
<1>5. CASE Stop(p, sig, "traced") \/ Stop(p, sig, "stopped")
  BY <1>1, <1>2, <1>5, StopInv
<1>6. CASE signal' = [signal EXCEPT ![p] = @ \ {sig}] /\ Default(p, sig) /\ exit_code' = exit_code
  <2>1. DOMAIN signal' = Tasks /\ signal'[init] = {}
    BY <1>1, <1>2, <1>6 DEF TypeOK
  <2>2. state' = [state EXCEPT ![p] = "TASK_RUNNING"]
    BY <1>1, <1>6, RunningAgain DEF Default, Running
  <2>3. PICK l \in {"user", "exit"} : Goto(p, l, NULL)
    BY <1>6 DEF Default
  <2>4. Steps(p, l)
    BY <1>1, <1>6, <2>1, <2>2, <2>3 DEF Steps, Goto, Default, TypeOK
  <2> QED
    BY <1>1, <1>2, <2>4, StepsInv DEF Running
<1> QED
  BY <1>4, <1>5, <1>6

LEMMA ResumeInv ==
    ASSUME IInv, NEW p \in Tasks, p = init => ~sys_exit(p),
           TracedResume(p) \/ StoppedResume(p) \/ ExitAgain(p) \/ sys_exit(p)
    PROVE  IInv'
<1>1. /\ state[p] = "TASK_RUNNING" /\ TypeOK /\ pc[p] # "exit_iput"
      /\ pc[p] \in {"traced", "stopped", "zombie"} \/ sys_exit(p)
  BY DEF TracedResume, StoppedResume, ExitAgain, sys_exit, InUser, Running, IInv
<1>2. signal[init] = {}
  BY DEF IInv, InitOnlyWaits
<1>3. PICK l \in {"user", "exit"} : Goto(p, l, NULL)
  BY DEF TracedResume, StoppedResume, ExitAgain, sys_exit, Default
<1>4. /\ UNCHANGED <<fam, state, exit_signal, flags, signal>>
      /\ exit_code' = exit_code \/ exit_code' = [exit_code EXCEPT ![p] = "0"]
  BY DEF TracedResume, StoppedResume, ExitAgain, sys_exit, Default
<1>5. Steps(p, l)
  <2>1. state' = [state EXCEPT ![p] = "TASK_RUNNING"]
    BY <1>1, <1>4, RunningAgain
  <2>2. DOMAIN exit_code' = Tasks /\ \A t \in Tasks \ {p} : exit_code'[t] \in {exit_code[t], "0"}
    BY <1>1, <1>4 DEF TypeOK
  <2> QED
    BY <1>1, <1>2, <1>3, <1>4, <2>1, <2>2 DEF Steps, Goto, TypeOK
<1>6. CASE p # init
  BY <1>1, <1>5, <1>6, StepsInv
<1>7. CASE p = init /\ ~sys_exit(p)
  BY <1>1, <1>7 DEF IInv, InitOnlyWaits
<1> QED
  BY <1>6, <1>7

\* The report is made: the exit_code of the child is cleared.
LEMMA ReportInv ==
    ASSUME IInv, NEW p \in Tasks, Report(p)
    PROVE  IInv'
<1>1. pc[p] = "report" /\ state[p] = "TASK_RUNNING" /\ TypeOK /\ signal[init] = {}
  BY DEF Report, Running, IInv, InitOnlyWaits
<1>2. /\ exit_code' = [exit_code EXCEPT ![arg[p]] = "0"] /\ Goto(p, "user", NULL)
      /\ UNCHANGED <<fam, state, exit_signal, flags, signal>>
  BY DEF Report
<1>3. state' = [state EXCEPT ![p] = "TASK_RUNNING"]
  BY <1>1, <1>2, RunningAgain
<1>4. DOMAIN exit_code' = Tasks /\ \A t \in Tasks \ {p} : exit_code'[t] \in {exit_code[t], "0"}
  BY <1>1, <1>2 DEF TypeOK
<1>5. Steps(p, "user")
  BY <1>1, <1>2, <1>3, <1>4 DEF Steps, Goto, TypeOK
<1> QED
  BY <1>1, <1>5, StepsInv

LEMMA KillInv ==
    ASSUME IInv, NEW p \in Tasks, NEW t \in Slots, NEW sig, sys_kill(p, t, sig)
    PROVE  IInv'
<1>0. init \in Tasks /\ init \notin Slots /\ Slots \subseteq Tasks /\ t \in Tasks
  BY ConstantsTypes
<1>1. TypeOK /\ signal[init] = {}
  BY DEF IInv, InitOnlyWaits
<1>2. UNCHANGED <<fam, exit_signal, flags, pc, arg>> /\ signal' = [signal EXCEPT ![t] = AfterSend(sig, t)]
  BY DEF sys_kill
<1>3. DOMAIN signal' = Tasks /\ signal'[init] = {}
  BY <1>0, <1>1, <1>2 DEF TypeOK
<1>4. CASE UNCHANGED <<state, exit_code>>
  <2>1. PICK s, e : s = state[t] /\ e = exit_code[t]
    OBVIOUS
  <2>2. state' = [state EXCEPT ![t] = s]
    BY <1>0, <1>1, <1>4, <2>1 DEF TypeOK
  <2>3. DOMAIN exit_code' = Tasks /\ exit_code'[t] = e /\ \A u \in Tasks : exit_code'[u] = exit_code[u]
    BY <1>1, <1>4, <2>1 DEF TypeOK
  <2>4. Continues(t, s, e) /\ MayContinue(t, s, e)
    BY <1>2, <1>3, <2>1, <2>2, <2>3 DEF Continues, MayContinue
  <2> QED
    BY <2>4, ContinuesInv
<1>5. CASE /\ state' = [state EXCEPT ![t] = IF @ = "TASK_STOPPED" THEN "TASK_RUNNING" ELSE @]
           /\ exit_code' = [exit_code EXCEPT ![t] = "0"]
  <2>1. PICK s, e : s = (IF state[t] = "TASK_STOPPED" THEN "TASK_RUNNING" ELSE state[t]) /\ e = "0"
    OBVIOUS
  <2>2. state' = [state EXCEPT ![t] = s] /\ exit_code' = [exit_code EXCEPT ![t] = e]
    BY <1>5, <2>1
  <2>3. Continues(t, s, e)
    BY <1>0, <1>1, <1>2, <1>3, <2>2 DEF Continues, TypeOK
  <2>4. MayContinue(t, s, e)
    BY <2>1 DEF MayContinue
  <2> QED
    BY <2>3, <2>4, ContinuesInv
<1> QED
  BY <1>4, <1>5 DEF sys_kill

LEMMA ContinueInv ==
    ASSUME IInv, NEW p \in Tasks, NEW c \in Slots, NEW d, PTRACE_CONT(p, c, d) \/ PTRACE_KILL(p, c)
    PROVE  IInv'
<1>1. TypeOK /\ signal[init] = {}
  BY DEF IInv, InitOnlyWaits
<1>2. MayTrace(p, c) /\ state' = [state EXCEPT ![c] = "TASK_RUNNING"]
      /\ UNCHANGED <<fam, exit_signal, flags, signal, pc, arg>>
  BY DEF PTRACE_CONT, PTRACE_KILL
<1>3. PICK e : exit_code' = [exit_code EXCEPT ![c] = e]
  BY DEF PTRACE_CONT, PTRACE_KILL
<1>4. Continues(c, "TASK_RUNNING", e)
  BY <1>1, <1>2, <1>3, ConstantsTypes DEF Continues, TypeOK
<1>5. MayContinue(c, "TASK_RUNNING", e)
  BY <1>2 DEF MayContinue, MayTrace, InUser, Running
<1> QED
  BY <1>4, <1>5, ContinuesInv

\* The new task is made to run: nobody but p has it in hand.
LEMMA ForkDoneInv ==
    ASSUME IInv, NEW p \in Tasks, ForkDone(p)
    PROVE  IInv'
<1>0. init \in Tasks /\ init \notin Slots /\ Slots \subseteq Tasks
  BY ConstantsTypes
<1>1. TypeOK /\ pc[p] = "fork" /\ state[p] = "TASK_RUNNING"
  BY DEF ForkDone, Running, IInv
<1>2. PICK t : t = arg[p]
  OBVIOUS
<1>3. /\ t \in Slots /\ t \in Tasks /\ state[t] = "TASK_UNINTERRUPTIBLE" /\ fam.p_pptr[t] = p
      /\ p # init /\ p # t /\ pc[t] \in {"user", "zombie"}
  BY <1>0, <1>1, <1>2 DEF IInv, Forking, InitOnlyWaits, Control
<1>4. /\ state' = [state EXCEPT ![t] = "TASK_RUNNING"]
      /\ pc' = [pc EXCEPT ![p] = "user", ![t] = "user"] /\ arg' = [arg EXCEPT ![p] = NULL]
      /\ UNCHANGED <<fam, exit_code, exit_signal, flags, signal>>
  BY <1>2 DEF ForkDone
<1>5. /\ pc' \in [Tasks -> Places] /\ pc'[p] = "user" /\ pc'[t] = "user"
      /\ \A u \in Tasks \ {p, t} : pc'[u] = pc[u]
      /\ DOMAIN arg' = Tasks /\ \A u \in Tasks \ {p} : arg'[u] = arg[u]
  BY <1>1, <1>3, <1>4 DEF TypeOK, Places
<1>6. /\ state' \in [Tasks -> States] /\ state'[t] = "TASK_RUNNING"
      /\ \A u \in Tasks \ {t} : state'[u] = state[u]
  BY <1>1, <1>3, <1>4 DEF TypeOK, States
<1>7. TypeOK'
  BY <1>1, <1>4, <1>5, <1>6 DEF TypeOK
<1>8. Control'
  BY <1>1, <1>3, <1>4, <1>5, <1>6 DEF IInv, Control, Traced
<1>9. InitOnlyWaits'
  BY <1>0, <1>3, <1>4, <1>5, <1>6 DEF IInv, InitOnlyWaits, Traced
<1>10. SameFamily
  <2>1. Alive' = Alive
    BY <1>0, <1>3, <1>6 DEF Alive, Live
  <2>2. \A u \in Tasks : Able(u) => Able(u)'
    BY <1>3, <1>5, <1>6 DEF Able
  <2>3. \A u \in Tasks : pc'[u] = "exit_iput" <=> pc[u] = "exit_iput"
    BY <1>1, <1>3, <1>5
  <2> QED
    BY <1>4, <2>1, <2>2, <2>3 DEF SameFamily, Traced
<1>11. SameHands
  <2> SUFFICES ASSUME NEW q \in Tasks, pc'[q] \in {"fork", "reap", "report"}
               PROVE  /\ pc'[q] = pc[q] /\ arg'[q] = arg[q]
                      /\ pc[q] # "report" => state'[arg[q]] = state[arg[q]]
    BY DEF SameHands
  <2>1. q # p /\ q # t /\ pc'[q] = pc[q] /\ arg'[q] = arg[q]
    BY <1>5
  <2>2. pc[q] # "report" => arg[q] \in Slots /\ fam.p_pptr[arg[q]] = q
    BY <2>1 DEF IInv, Forking, Reaping
  <2> QED
    BY <1>0, <1>3, <1>6, <2>1, <2>2
<1>12. StillAsleep
  BY <1>3, <1>5, <1>6 DEF StillAsleep, Asleep
<1>13. NothingNew
  <2> SUFFICES ASSUME NEW c \in Slots, Live(c)' PROVE Silent(c) \/ AsBefore(c)
    BY DEF NothingNew
  <2>1. CASE c = t
    BY <1>6, <2>1 DEF Silent
  <2>2. CASE c # t
    BY <1>0, <1>4, <1>6, <2>2 DEF AsBefore, Live
  <2> QED
    BY <2>1, <2>2
<1>14. NoStrayZombie
  BY <1>0, <1>4, <1>6 DEF NoStrayZombie, Awaited
<1>15. Tree(fam, Alive)' /\ Parents' /\ Fostered' /\ Forking' /\ Reaping' /\ Reporting'
  BY <1>10, <1>11, FamilyKept, HandsKept
<1>16. Waiting' /\ InitCanReap'
  BY <1>9, <1>12, <1>13, <1>14, WaitersKept, ZombiesKept
<1> QED
  BY <1>7, <1>8, <1>9, <1>15, <1>16 DEF IInv

-----------------------------------------------------------------------------
(* A task comes, or goes.                                                  *)

\* p_opptr has no part in the lists.
LEMMA SameTree ==
    ASSUME NEW f, NEW g, NEW A, Tree(f, A), g.p_pptr = f.p_pptr, g.p_cptr = f.p_cptr,
           g.p_ysptr = f.p_ysptr, g.p_osptr = f.p_osptr
    PROVE  Tree(g, A)
<1>1. PICK pos \in [Tasks -> Nat] : Older(f, A, pos) /\ Younger(f, A, A)
  BY DEF Tree
<1>2. Older(g, A, pos)
  BY <1>1 DEF Older
<1>3. Younger(g, A, A)
  BY <1>1 DEF Younger
<1> QED
  BY <1>2, <1>3 DEF Tree

\* Who cannot be a parent has no children.
LEMMA Childless ==
    ASSUME IInv, NEW t \in Tasks, ~Able(t)
    PROVE  /\ \A u \in Alive : fam.p_pptr[u] # t /\ fam.p_opptr[u] # t
           /\ fam.p_cptr[t] = NULL
<1>1. \A u \in Alive : fam.p_pptr[u] # t /\ fam.p_opptr[u] # t
  BY DEF IInv, Parents
<1>2. PICK pos \in [Tasks -> Nat] : Older(fam, Alive, pos)
  BY DEF IInv, Tree
<1>3. fam.p_cptr[t] = NULL
  BY <1>1, <1>2 DEF Older
<1> QED
  BY <1>1, <1>3

\* The new task t is in the list of p, and p sleeps for its memory.
LEMMA ForkInv ==
    ASSUME IInv, NEW p \in Slots, NEW t \in Slots, NEW es \in ExitSignals, sys_fork(p, t, es)
    PROVE  IInv'
<1>0. init \in Tasks /\ init \notin Slots /\ Slots \subseteq Tasks /\ p \in Tasks /\ t \in Tasks
      /\ NULL \notin Tasks
  BY ConstantsTypes
<1>1. TypeOK /\ pc[p] = "user" /\ state[p] = "TASK_RUNNING" /\ state[t] = "free" /\ p # t
  BY DEF IInv, sys_fork, InUser, Running
<1>2. /\ state' = [state EXCEPT ![t] = "TASK_UNINTERRUPTIBLE"]
      /\ fam' = SET_LINKS([fam EXCEPT !.p_opptr[t] = p, !.p_cptr[t] = NULL], t, p)
      /\ exit_signal' = [exit_signal EXCEPT ![t] = es]
      /\ flags' = [flags EXCEPT ![t] = {}]
      /\ signal' = [signal EXCEPT ![t] = {}]
      /\ exit_code' = [exit_code EXCEPT ![t] = exit_code[p]]
      /\ pc' = [pc EXCEPT ![p] = "fork"] /\ arg' = [arg EXCEPT ![p] = t]
  BY DEF sys_fork, Goto
<1>3. /\ \A u \in Alive : fam.p_pptr[u] # t /\ fam.p_opptr[u] # t
      /\ fam.p_cptr[t] = NULL
  <2>1. ~Able(t)
    BY <1>1 DEF Able
  <2> QED
    BY <1>0, <2>1, Childless
<1>4. t \notin Alive /\ Alive \in SUBSET Slots /\ Alive \subseteq Tasks
  BY <1>0, <1>1 DEF Alive, Live
<1>5. PICK h : h = [fam EXCEPT !.p_opptr[t] = p, !.p_cptr[t] = NULL]
  OBVIOUS
<1>6. /\ h \in Families /\ h.p_pptr = fam.p_pptr /\ h.p_cptr = fam.p_cptr
      /\ h.p_ysptr = fam.p_ysptr /\ h.p_osptr = fam.p_osptr
      /\ h.p_opptr = [fam.p_opptr EXCEPT ![t] = p]
  <2>1. fam \in Families /\ fam.p_cptr = [fam.p_cptr EXCEPT ![t] = NULL]
    BY <1>0, <1>1, <1>3 DEF TypeOK, Families, Links
  <2>2. [fam.p_opptr EXCEPT ![t] = p] \in Links
    BY <1>0, <2>1 DEF Families, Links
  <2>3. [fam.p_cptr EXCEPT ![t] = NULL] \in Links
    BY <1>0, <2>1 DEF Families, Links
  <2>4. h = [fam EXCEPT !.p_opptr = [fam.p_opptr EXCEPT ![t] = p],
                        !.p_cptr = [fam.p_cptr EXCEPT ![t] = NULL]]
    BY <1>5, <2>1 DEF Families
  <2> QED
    BY <2>1, <2>2, <2>3, <2>4 DEF Families
<1>7. SetAtHead(h, fam', t, p)
  BY <1>0, <1>2, <1>5, <1>6, SetLinks
<1>8. /\ fam' \in Families /\ fam'.p_pptr[t] = p /\ fam'.p_opptr[t] = p
      /\ \A u \in Tasks \ {t} : fam'.p_pptr[u] = fam.p_pptr[u] /\ fam'.p_opptr[u] = fam.p_opptr[u]
  <2>1. h.p_opptr[t] = p /\ \A u \in Tasks \ {t} : h.p_opptr[u] = fam.p_opptr[u]
    BY <1>0, <1>1, <1>6 DEF TypeOK, Families, Links
  <2> QED
    BY <1>0, <1>6, <1>7, <2>1 DEF SetAtHead
<1>9. /\ state' \in [Tasks -> States] /\ state'[t] = "TASK_UNINTERRUPTIBLE"
      /\ \A u \in Tasks \ {t} : state'[u] = state[u]
  BY <1>0, <1>1, <1>2 DEF TypeOK, States
<1>10. Alive' = Alive \cup {t}
  BY <1>0, <1>1, <1>9 DEF Alive, Live
<1>11. Tree(fam, Alive)'
  <2>1. Tree(h, Alive)
    BY <1>6, SameTree DEF IInv
  <2>2. Tree(fam', Alive \cup {t})
    BY <1>0, <1>4, <1>6, <1>7, <2>1, SetTree
  <2> QED
    BY <1>10, <2>2
<1>12. /\ pc' \in [Tasks -> Places] /\ pc'[p] = "fork" /\ \A u \in Tasks \ {p} : pc'[u] = pc[u]
       /\ DOMAIN arg' = Tasks /\ arg'[p] = t /\ \A u \in Tasks \ {p} : arg'[u] = arg[u]
  BY <1>0, <1>1, <1>2 DEF TypeOK, Places
<1>13. /\ exit_signal' \in [Tasks -> {"SIGCHLD", "none"}]
       /\ \A u \in Tasks \ {t} : exit_signal'[u] = exit_signal[u]
  <2>1. es \in {"SIGCHLD", "none"}
    BY ProcessAssumption
  <2> QED
    BY <1>0, <1>1, <1>2, <2>1 DEF TypeOK
<1>14. /\ flags' \in [Tasks -> SUBSET {"PF_PTRACED"}] /\ flags'[t] = {}
       /\ \A u \in Tasks \ {t} : flags'[u] = flags[u]
  BY <1>0, <1>1, <1>2 DEF TypeOK
<1>15. /\ DOMAIN signal' = Tasks /\ signal'[init] = signal[init]
       /\ DOMAIN exit_code' = Tasks /\ \A u \in Tasks \ {t} : exit_code'[u] = exit_code[u]
  BY <1>0, <1>1, <1>2 DEF TypeOK
<1>16. TypeOK'
  BY <1>8, <1>9, <1>12, <1>13, <1>14, <1>15 DEF TypeOK
<1>17. Control'
  BY <1>0, <1>1, <1>9, <1>12, <1>14 DEF IInv, Control, Traced
<1>18. InitOnlyWaits'
  BY <1>0, <1>9, <1>12, <1>14, <1>15 DEF IInv, InitOnlyWaits, Traced
<1>19. \A q \in Tasks : Able(q) => Able(q)' /\ q # t
  BY <1>1, <1>9, <1>12 DEF Able
<1>20. Able(p) /\ \A q \in Tasks : pc'[q] = "exit_iput" <=> pc[q] = "exit_iput"
  BY <1>1, <1>12 DEF Able
<1>21. Parents'
  <2> SUFFICES ASSUME NEW u \in Alive'
               PROVE  /\ fam'.p_pptr[u] \in Tasks /\ fam'.p_pptr[u] # u /\ Able(fam.p_pptr[u])'
                      /\ fam'.p_opptr[u] \in Tasks /\ fam'.p_opptr[u] # u /\ Able(fam.p_opptr[u])'
                      /\ pc'[fam'.p_opptr[u]] # "exit_iput"
    BY DEF Parents
  <2>1. CASE u = t
    BY <1>0, <1>1, <1>8, <1>12, <1>19, <1>20, <2>1
  <2>2. CASE u # t
    <3>1. u \in Alive /\ fam'.p_pptr[u] = fam.p_pptr[u] /\ fam'.p_opptr[u] = fam.p_opptr[u]
      BY <1>4, <1>8, <1>10, <2>2
    <3> QED
      BY <1>19, <1>20, <3>1 DEF IInv, Parents
  <2> QED
    BY <2>1, <2>2
<1>22. Fostered'
  <2> SUFFICES ASSUME NEW u \in Alive', fam'.p_pptr[u] \notin {fam'.p_opptr[u], init}
               PROVE  Traced(u)' \/ pc'[fam'.p_pptr[u]] = "exit_iput"
    BY DEF Fostered
  <2>1. u # t
    BY <1>8
  <2>2. u \in Alive /\ fam'.p_pptr[u] = fam.p_pptr[u] /\ fam'.p_opptr[u] = fam.p_opptr[u]
        /\ flags'[u] = flags[u]
    BY <1>4, <1>8, <1>10, <1>14, <2>1
  <2>3. fam.p_pptr[u] \in Tasks /\ (Traced(u) \/ pc[fam.p_pptr[u]] = "exit_iput")
    BY <2>2 DEF IInv, Fostered, Parents
  <2> QED
    BY <1>20, <2>2, <2>3 DEF Traced
<1>23. Forking'
  <2> SUFFICES ASSUME NEW q \in Tasks, pc'[q] = "fork"
               PROVE  arg'[q] \in Slots /\ state'[arg'[q]] = "TASK_UNINTERRUPTIBLE" /\ fam'.p_pptr[arg'[q]] = q
    BY DEF Forking
  <2>1. CASE q = p
    BY <1>8, <1>9, <1>12, <2>1
  <2>2. CASE q # p
    <3>1. arg'[q] = arg[q] /\ arg[q] \in Slots /\ state[arg[q]] = "TASK_UNINTERRUPTIBLE" /\ fam.p_pptr[arg[q]] = q
      BY <1>12, <2>2 DEF IInv, Forking
    <3> QED
      BY <1>0, <1>1, <1>8, <1>9, <3>1
  <2> QED
    BY <2>1, <2>2
<1>24. Reaping'
  <2> SUFFICES ASSUME NEW q \in Tasks, pc'[q] = "reap"
               PROVE  arg'[q] \in Slots /\ state'[arg'[q]] = "TASK_ZOMBIE" /\ fam'.p_pptr[arg'[q]] = q
    BY DEF Reaping
  <2>1. arg'[q] = arg[q] /\ arg[q] \in Slots /\ state[arg[q]] = "TASK_ZOMBIE" /\ fam.p_pptr[arg[q]] = q
    BY <1>12 DEF IInv, Reaping
  <2> QED
    BY <1>0, <1>1, <1>8, <1>9, <2>1
<1>25. Reporting'
  <2> SUFFICES ASSUME NEW q \in Tasks, pc'[q] = "report"
               PROVE  /\ arg'[q] \in Alive'
                      /\ \/ fam'.p_opptr[arg'[q]] = q
                         \/ fam'.p_pptr[arg'[q]] = q /\ Traced(arg[q])'
    BY DEF Reporting
  <2>1. PICK c : c = arg[q] /\ c = arg'[q]
    BY <1>12
  <2>2. c \in Alive /\ (fam.p_opptr[c] = q \/ (fam.p_pptr[c] = q /\ Traced(c)))
    BY <1>12, <2>1 DEF IInv, Reporting
  <2>3. c # t /\ c \in Tasks
    BY <1>4, <2>2
  <2> QED
    BY <1>8, <1>10, <1>14, <2>1, <2>2, <2>3 DEF Traced
<1>26. StillAsleep
  BY <1>9, <1>12 DEF StillAsleep, Asleep
<1>27. NothingNew
  <2> SUFFICES ASSUME NEW c \in Slots, Live(c)' PROVE Silent(c) \/ AsBefore(c)
    BY DEF NothingNew
  <2>1. CASE c = t
    BY <1>9, <2>1 DEF Silent
  <2>2. CASE c # t
    BY <1>0, <1>8, <1>9, <1>13, <1>14, <1>15, <2>2 DEF AsBefore, Live
  <2> QED
    BY <2>1, <2>2
<1>28. NoStrayZombie
  BY <1>0, <1>8, <1>9, <1>13 DEF NoStrayZombie, Awaited
<1>29. Waiting' /\ InitCanReap'
  BY <1>18, <1>26, <1>27, <1>28, WaitersKept, ZombiesKept
<1> QED
  BY <1>11, <1>16, <1>17, <1>18, <1>21, <1>22, <1>23, <1>24, <1>25, <1>29 DEF IInv

\* p frees the task t it has in hand.
LEMMA FreeInv ==
    ASSUME IInv, NEW p \in Tasks, NEW t \in Alive, pc[p] \in {"fork", "reap"},
           state[p] = "TASK_RUNNING", arg[p] = t, fam.p_pptr[t] = p, fam.p_opptr[t] = p,
           state[t] \in {"TASK_UNINTERRUPTIBLE", "TASK_ZOMBIE"}, Free(t), Goto(p, "user", NULL)
    PROVE  IInv'
<1>0. init \in Tasks /\ init \notin Slots /\ Slots \subseteq Tasks /\ t \in Tasks /\ t \in Slots
      /\ NULL \notin Tasks
  BY ConstantsTypes DEF Alive
<1>1. TypeOK /\ p # t
  BY DEF IInv
<1>2. /\ state' = [state EXCEPT ![t] = "free"]
      /\ fam' = Forgotten(fam, t)
      /\ exit_code' = [exit_code EXCEPT ![t] = "0"]
      /\ exit_signal' = [exit_signal EXCEPT ![t] = "none"]
      /\ flags' = [flags EXCEPT ![t] = {}]
      /\ signal' = [signal EXCEPT ![t] = {}]
      /\ pc' = [pc EXCEPT ![p] = "user"] /\ arg' = [arg EXCEPT ![p] = NULL]
  BY DEF Free, Goto
<1>3. \A u \in Alive : fam.p_pptr[u] # t /\ fam.p_opptr[u] # t
  <2>1. ~Able(t)
    BY DEF Able
  <2> QED
    BY <1>0, <2>1, Childless
<1>4. Alive \in SUBSET Slots /\ Alive \subseteq Tasks
  BY <1>0 DEF Alive
<1>5. /\ Tree(fam', Alive \ {t}) /\ fam' \in Families
      /\ \A u \in Tasks \ {t} : fam'.p_pptr[u] = fam.p_pptr[u] /\ fam'.p_opptr[u] = fam.p_opptr[u]
  <2>1. fam \in Families /\ Tree(fam, Alive)
    BY DEF IInv, TypeOK
  <2>2. PICK f : f = fam
    OBVIOUS
  <2>3. f \in Families /\ Tree(f, Alive) /\ \A u \in Alive : f.p_pptr[u] # t
    BY <1>3, <2>1, <2>2
  <2>4. /\ Tree(Forgotten(f, t), Alive \ {t}) /\ Forgotten(f, t) \in Families
        /\ \A u \in Tasks \ {t} : /\ Forgotten(f, t).p_pptr[u] = f.p_pptr[u]
                                  /\ Forgotten(f, t).p_opptr[u] = f.p_opptr[u]
    BY <1>4, <2>3, ForgottenTree
  <2> QED
    BY <1>2, <2>2, <2>4
<1>6. /\ state' \in [Tasks -> States] /\ state'[t] = "free"
      /\ \A u \in Tasks \ {t} : state'[u] = state[u]
  BY <1>0, <1>1, <1>2 DEF TypeOK, States
<1>7. Alive' = Alive \ {t}
  BY <1>0, <1>6 DEF Alive, Live
<1>8. /\ pc' \in [Tasks -> Places] /\ pc'[p] = "user" /\ \A u \in Tasks \ {p} : pc'[u] = pc[u]
      /\ DOMAIN arg' = Tasks /\ \A u \in Tasks \ {p} : arg'[u] = arg[u]
  BY <1>0, <1>1, <1>2 DEF TypeOK, Places
<1>9. /\ exit_signal' \in [Tasks -> {"SIGCHLD", "none"}]
      /\ \A u \in Tasks \ {t} : exit_signal'[u] = exit_signal[u]
  BY <1>0, <1>1, <1>2 DEF TypeOK
<1>10. /\ flags' \in [Tasks -> SUBSET {"PF_PTRACED"}] /\ flags'[t] = {}
       /\ \A u \in Tasks \ {t} : flags'[u] = flags[u]
  BY <1>0, <1>1, <1>2 DEF TypeOK
<1>11. /\ DOMAIN signal' = Tasks /\ signal'[init] = signal[init]
       /\ DOMAIN exit_code' = Tasks /\ \A u \in Tasks \ {t} : exit_code'[u] = exit_code[u]
  BY <1>0, <1>1, <1>2 DEF TypeOK
<1>12. TypeOK'
  BY <1>5, <1>6, <1>8, <1>9, <1>10, <1>11 DEF TypeOK
<1>13. Control'
  <2>1. pc[t] \in {"user", "zombie"}
    BY <1>0 DEF IInv, Control
  <2> QED
    BY <1>0, <1>1, <1>6, <1>8, <1>10, <2>1 DEF IInv, Control, Traced
<1>14. InitOnlyWaits'
  BY <1>0, <1>6, <1>8, <1>10, <1>11 DEF IInv, InitOnlyWaits, Traced
<1>15. \A q \in Tasks : Able(q) => Able(q)'
  BY <1>6, <1>8 DEF Able
<1>16. \A q \in Tasks : pc'[q] = "exit_iput" <=> pc[q] = "exit_iput"
  BY <1>8
<1>17. \A u \in Alive' : /\ u \in Alive /\ u # t /\ u \in Tasks /\ fam'.p_pptr[u] = fam.p_pptr[u]
                         /\ fam'.p_opptr[u] = fam.p_opptr[u] /\ flags'[u] = flags[u]
  BY <1>4, <1>5, <1>7, <1>10
<1>18. Parents'
  BY <1>15, <1>16, <1>17 DEF IInv, Parents
<1>19. Fostered'
  BY <1>16, <1>17 DEF IInv, Fostered, Parents, Traced
<1>20. ASSUME NEW q \in Tasks, pc'[q] \in {"fork", "reap"}
       PROVE  /\ arg'[q] = arg[q] /\ pc'[q] = pc[q] /\ arg[q] \in Slots
              /\ state'[arg[q]] = state[arg[q]] /\ fam'.p_pptr[arg[q]] = q
  <2>1. q # p /\ arg'[q] = arg[q] /\ pc'[q] = pc[q]
    BY <1>8, <1>20
  <2>2. arg[q] \in Slots /\ fam.p_pptr[arg[q]] = q
    BY <1>20, <2>1 DEF IInv, Forking, Reaping
  <2> QED
    BY <1>0, <1>5, <1>6, <2>1, <2>2
<1>21. Forking' /\ Reaping'
  BY <1>20 DEF IInv, Forking, Reaping
<1>22. Reporting'
  <2> SUFFICES ASSUME NEW q \in Tasks, pc'[q] = "report"
               PROVE  /\ arg'[q] \in Alive'
                      /\ \/ fam'.p_opptr[arg'[q]] = q
                         \/ fam'.p_pptr[arg'[q]] = q /\ Traced(arg[q])'
    BY DEF Reporting
  <2>1. PICK c : c = arg[q] /\ c = arg'[q]
    BY <1>8
  <2>2. q # p /\ c \in Alive /\ (fam.p_opptr[c] = q \/ (fam.p_pptr[c] = q /\ Traced(c)))
    BY <1>8, <2>1 DEF IInv, Reporting
  <2>3. c \in Alive'
    BY <1>7, <2>2
  <2> QED
    BY <1>17, <2>1, <2>2, <2>3 DEF Traced
<1>23. StillAsleep
  BY <1>6, <1>8 DEF StillAsleep, Asleep
<1>24. NothingNew
  <2> SUFFICES ASSUME NEW c \in Slots, Live(c)' PROVE AsBefore(c)
    BY DEF NothingNew
  <2>1. c # t
    BY <1>6 DEF Live
  <2> QED
    BY <1>0, <1>5, <1>6, <1>9, <1>10, <1>11, <2>1 DEF AsBefore, Live
<1>25. NoStrayZombie
  BY <1>0, <1>5, <1>6, <1>9 DEF NoStrayZombie, Awaited
<1>26. Waiting' /\ InitCanReap'
  BY <1>14, <1>23, <1>24, <1>25, WaitersKept, ZombiesKept
<1>27. Tree(fam, Alive)'
  BY <1>5, <1>7
<1> QED
  BY <1>12, <1>13, <1>14, <1>18, <1>19, <1>21, <1>22, <1>26, <1>27 DEF IInv

LEMMA ForkFailsInv ==
    ASSUME IInv, NEW p \in Tasks, ForkFails(p)
    PROVE  IInv'
<1>1. pc[p] = "fork" /\ state[p] = "TASK_RUNNING" /\ Free(arg[p]) /\ Goto(p, "user", NULL)
  BY DEF ForkFails, Running
<1>2. PICK t : t = arg[p]
  OBVIOUS
<1>3. /\ t \in Slots /\ state[t] = "TASK_UNINTERRUPTIBLE" /\ fam.p_pptr[t] = p /\ t \in Alive
      /\ p # init
  BY <1>1, <1>2 DEF IInv, Forking, Alive, Live, InitOnlyWaits
<1>4. ~Traced(t)
  BY <1>3, ConstantsTypes DEF IInv, Control
<1>5. fam.p_opptr[t] = p
  BY <1>1, <1>3, <1>4 DEF IInv, Fostered
<1> QED
  BY <1>1, <1>2, <1>3, <1>5, FreeInv

-----------------------------------------------------------------------------
(* A task dies.                                                            *)

\* Its children get init for their original parent.
LEMMA ExitInv ==
    ASSUME IInv, NEW p \in Tasks, do_exit(p)
    PROVE  IInv'
<1>0. init \in Tasks /\ init \notin Slots /\ Slots \subseteq Tasks
  BY ConstantsTypes
<1>1. TypeOK /\ pc[p] = "exit" /\ state[p] = "TASK_RUNNING" /\ p # init
  BY DEF IInv, do_exit, Running, InitOnlyWaits
<1>2. /\ fam' = forget_original_parent(fam, p)
      /\ pc' = [pc EXCEPT ![p] = "exit_iput"] /\ arg' = [arg EXCEPT ![p] = NULL]
      /\ state' = state /\ exit_code' = exit_code /\ exit_signal' = exit_signal
      /\ flags' = flags /\ signal' = signal
  BY DEF do_exit, Goto
<1>3. /\ fam' \in Families /\ fam'.p_pptr = fam.p_pptr /\ fam'.p_cptr = fam.p_cptr
      /\ fam'.p_ysptr = fam.p_ysptr /\ fam'.p_osptr = fam.p_osptr
      /\ \A u \in Tasks : fam'.p_opptr[u] = IF fam.p_opptr[u] = p THEN init ELSE fam.p_opptr[u]
  <2> DEFINE op == [t \in Tasks |-> IF fam.p_opptr[t] = p THEN init ELSE fam.p_opptr[t]]
  <2>1. op \in Links
    BY <1>0, <1>1 DEF TypeOK, Families, Links
  <2>2. fam' = [fam EXCEPT !.p_opptr = op] /\ fam \in Families
    BY <1>1, <1>2 DEF forget_original_parent, TypeOK
  <2>3. \A u \in Tasks : op[u] = IF fam.p_opptr[u] = p THEN init ELSE fam.p_opptr[u]
    OBVIOUS
  <2> HIDE DEF op
  <2> QED
    BY <2>1, <2>2, <2>3 DEF Families
<1>4. Alive' = Alive /\ Alive \subseteq Tasks
  BY <1>0, <1>2 DEF Alive, Live
<1>5. Tree(fam, Alive)'
  <2>1. Tree(fam', Alive)
    BY <1>3, SameTree DEF IInv
  <2> QED
    BY <1>4, <2>1
<1>6. /\ pc' \in [Tasks -> Places] /\ pc'[p] = "exit_iput" /\ \A u \in Tasks \ {p} : pc'[u] = pc[u]
      /\ DOMAIN arg' = Tasks /\ \A u \in Tasks \ {p} : arg'[u] = arg[u]
  BY <1>0, <1>1, <1>2 DEF TypeOK, Places
<1>7. TypeOK'
  BY <1>1, <1>2, <1>3, <1>6 DEF TypeOK
<1>8. Control'
  BY <1>1, <1>2, <1>6 DEF IInv, Control, Traced
<1>9. InitOnlyWaits'
  BY <1>0, <1>1, <1>2, <1>6 DEF IInv, InitOnlyWaits, Traced
<1>10. \A q \in Tasks : Able(q) => Able(q)'
  BY <1>1, <1>2, <1>6 DEF Able
<1>11. Able(init) /\ pc[init] # "exit_iput"
  BY DEF IInv, InitOnlyWaits, Able
<1>12. Parents'
  <2> SUFFICES ASSUME NEW u \in Alive
               PROVE  /\ fam'.p_pptr[u] \in Tasks /\ fam'.p_pptr[u] # u /\ Able(fam.p_pptr[u])'
                      /\ fam'.p_opptr[u] \in Tasks /\ fam'.p_opptr[u] # u /\ Able(fam.p_opptr[u])'
                      /\ pc'[fam'.p_opptr[u]] # "exit_iput"
    BY <1>4 DEF Parents
  <2>1. /\ fam.p_pptr[u] \in Tasks /\ fam.p_pptr[u] # u /\ Able(fam.p_pptr[u])
        /\ fam.p_opptr[u] \in Tasks /\ fam.p_opptr[u] # u /\ Able(fam.p_opptr[u])
        /\ pc[fam.p_opptr[u]] # "exit_iput" /\ u # init /\ u \in Tasks
    BY <1>0 DEF IInv, Parents, Alive
  <2>2. CASE fam.p_opptr[u] = p
    BY <1>0, <1>1, <1>3, <1>6, <1>10, <1>11, <2>1, <2>2
  <2>3. CASE fam.p_opptr[u] # p
    BY <1>0, <1>3, <1>6, <1>10, <2>1, <2>3
  <2> QED
    BY <2>2, <2>3
<1>13. Fostered'
  <2> SUFFICES ASSUME NEW u \in Alive, fam'.p_pptr[u] \notin {fam'.p_opptr[u], init}
               PROVE  Traced(u)' \/ pc'[fam'.p_pptr[u]] = "exit_iput"
    BY <1>4 DEF Fostered
  <2>1. fam'.p_pptr[u] = fam.p_pptr[u] /\ fam.p_pptr[u] \in Tasks /\ (Traced(u)' <=> Traced(u)) /\ u \in Tasks
    BY <1>2, <1>3, <1>4 DEF Traced, IInv, Parents
  <2>2. CASE fam.p_pptr[u] = p
    BY <1>6, <2>1, <2>2
  <2>3. CASE fam.p_pptr[u] # p
    <3>1. fam.p_pptr[u] \notin {fam.p_opptr[u], init}
      BY <1>3, <2>1, <2>3
    <3> QED
      BY <1>6, <2>1, <2>3, <3>1 DEF IInv, Fostered
  <2> QED
    BY <2>2, <2>3
<1>14. \A q \in Tasks : pc'[q] \in {"fork", "reap", "report"} => q # p /\ pc'[q] = pc[q] /\ arg'[q] = arg[q]
  BY <1>6
<1>15. Forking' /\ Reaping'
  BY <1>2, <1>3, <1>14 DEF IInv, Forking, Reaping
<1>16. Reporting'
  <2> SUFFICES ASSUME NEW q \in Tasks, pc'[q] = "report"
               PROVE  /\ arg'[q] \in Alive
                      /\ \/ fam'.p_opptr[arg'[q]] = q
                         \/ fam'.p_pptr[arg'[q]] = q /\ Traced(arg[q])'
    BY <1>4 DEF Reporting
  <2>1. PICK c : c = arg[q] /\ c = arg'[q]
    BY <1>14
  <2>2. q # p /\ c \in Alive /\ (fam.p_opptr[c] = q \/ (fam.p_pptr[c] = q /\ Traced(c)))
    BY <1>14, <2>1 DEF IInv, Reporting
  <2>3. c \in Tasks
    BY <1>4, <2>2
  <2> QED
    BY <1>2, <1>3, <2>1, <2>2, <2>3 DEF Traced
<1>17. StillAsleep
  BY <1>2, <1>6 DEF StillAsleep, Asleep
<1>18. NothingNew
  BY <1>2, <1>3 DEF NothingNew, AsBefore, Live
<1>19. NoStrayZombie
  BY <1>2, <1>3 DEF NoStrayZombie, Awaited
<1>20. Waiting' /\ InitCanReap'
  BY <1>9, <1>17, <1>18, <1>19, WaitersKept, ZombiesKept
<1> QED
  BY <1>5, <1>7, <1>8, <1>9, <1>12, <1>13, <1>15, <1>16, <1>20 DEF IInv

\* SIGCHLD is ignored by init, whoever it is told of.
LEMMA ToldInit ==
    ASSUME IInv, NEW ts, NEW q \in Tasks, NEW es
    PROVE  DOMAIN Told(ts, q, es) = Tasks /\ Told(ts, q, es)[init] = {}
<1>1. signal[init] = {} /\ ~Traced(init) /\ DOMAIN signal = Tasks /\ init \in Tasks
  BY ConstantsTypes DEF IInv, InitOnlyWaits, TypeOK
<1>2. generate("SIGCHLD", init, {}) = {}
  BY <1>1 DEF generate
<1>3. PICK told : told = Told(ts, q, es)
  OBVIOUS
<1>4. CASE told = signal
  BY <1>1, <1>3, <1>4
<1>5. CASE told = [signal EXCEPT ![q] = generate("SIGCHLD", q, signal[q])]
  BY <1>1, <1>2, <1>3, <1>5
<1> QED
  BY <1>3, <1>4, <1>5 DEF Told

\* q does not sleep in wait4 any more; nobody else is disturbed.
Woken(st, new, q) ==
    /\ new \in [Tasks -> States] /\ new[q] # "TASK_INTERRUPTIBLE"
    /\ \A u \in Tasks : new[u] = st[u] \/ (st[u] = "TASK_INTERRUPTIBLE" /\ new[u] = "TASK_RUNNING")

LEMMA WakeWakes ==
    ASSUME NEW st \in [Tasks -> States], NEW q \in Tasks
    PROVE  Woken(st, Wake(st, q), q)
<1>1. PICK new : new = Wake(st, q)
  OBVIOUS
<1>2. CASE st[q] = "TASK_INTERRUPTIBLE"
  BY <1>1, <1>2 DEF Wake, Woken, States
<1>3. CASE st[q] # "TASK_INTERRUPTIBLE"
  BY <1>1, <1>3 DEF Wake, Woken
<1> QED
  BY <1>2, <1>3

\* p is a zombie, its children are init's, and who waits for them is told.
LEMMA ZombieInv ==
    ASSUME IInv, NEW p \in Tasks, Zombie(p)
    PROVE  IInv'
<1>0. init \in Tasks /\ init \notin Slots /\ Slots \subseteq Tasks /\ NULL \notin Tasks
  BY ConstantsTypes
<1>1. TypeOK /\ pc[p] = "exit_iput" /\ state[p] = "TASK_RUNNING" /\ p # init /\ p \in Slots
  BY DEF IInv, Zombie, Running, InitOnlyWaits, Tasks
<1>2. p \in Alive /\ Alive \subseteq Tasks /\ Alive \in SUBSET Slots
  BY <1>0, <1>1 DEF Alive, Live
<1> DEFINE q == fam.p_pptr[p]
           dead == {c \in Children(p) : state[c] = "TASK_ZOMBIE"}
           es == [t \in Tasks |-> IF t \in dead THEN ToldAs(dead, init)[t] ELSE ToldAs({p}, q)[t]]
           zs == [state EXCEPT ![p] = "TASK_ZOMBIE"]
           st == Wake(zs, q)
<1>3. /\ exit_signal' = es /\ signal' = Told({p}, q, es) /\ state' = InitTold(st, dead)
      /\ flags' = [t \in Tasks |-> IF t \in Children(p) THEN {} ELSE flags[t]]
      /\ fam' = InheritAll(fam, p)
      /\ exit_code' = [exit_code EXCEPT ![p] = "0"]
      /\ pc' = [pc EXCEPT ![p] = "zombie"] /\ arg' = [arg EXCEPT ![p] = NULL]
  BY DEF Zombie, Goto
<1>4. q \in Tasks /\ q # p
  BY <1>2 DEF IInv, Parents
<1>5. /\ exit_signal' \in [Tasks -> {"SIGCHLD", "none"}]
      /\ \A u \in dead : exit_signal'[u] = "SIGCHLD"
      /\ q = init => exit_signal'[p] = "SIGCHLD"
      /\ \A u \in Tasks : u # p /\ u \notin dead => exit_signal'[u] = exit_signal[u]
  <2>1. dead \subseteq Tasks /\ p \notin dead
    BY <1>0, <1>1 DEF Children
  <2>2. /\ \A u \in Tasks : ToldAs(dead, init)[u] = IF u \in dead THEN "SIGCHLD" ELSE exit_signal[u]
        /\ \A u \in Tasks : ToldAs({p}, q)[u] = IF u = p /\ q = init THEN "SIGCHLD" ELSE exit_signal[u]
    BY DEF ToldAs
  <2>3. \A u \in Tasks : exit_signal'[u] = IF u \in dead \/ (u = p /\ q = init) THEN "SIGCHLD" ELSE exit_signal[u]
    BY <1>3, <2>1, <2>2
  <2>4. exit_signal' = [u \in Tasks |-> IF u \in dead THEN "SIGCHLD" ELSE ToldAs({p}, q)[u]]
    BY <1>3, <2>2
  <2>5. exit_signal' \in [Tasks -> {"SIGCHLD", "none"}]
    <3>1. \A u \in Tasks : ToldAs({p}, q)[u] \in {"SIGCHLD", "none"}
      BY <1>1, <2>2 DEF TypeOK
    <3> HIDE DEF dead, q
    <3> QED
      BY <2>4, <3>1
  <2> HIDE DEF dead, q
  <2> QED
    BY <2>1, <2>3, <2>5
<1>6. /\ zs \in [Tasks -> States] /\ zs[p] = "TASK_ZOMBIE"
      /\ \A u \in Tasks \ {p} : zs[u] = state[u]
  BY <1>1 DEF TypeOK, States
<1>7. Woken(zs, st, q)
  BY <1>4, <1>6, WakeWakes
<1>8. /\ state' \in [Tasks -> States] /\ state'[p] = "TASK_ZOMBIE"
      /\ state'[q] # "TASK_INTERRUPTIBLE"
      /\ dead # {} => state'[init] # "TASK_INTERRUPTIBLE"
      /\ \A u \in Tasks \ {p} : \/ state'[u] = state[u]
                                \/ state[u] = "TASK_INTERRUPTIBLE" /\ state'[u] = "TASK_RUNNING"
  <2> HIDE DEF zs, st, q, dead
  <2>1. CASE dead = {}
    <3>1. state' = st
      BY <1>3, <2>1 DEF InitTold
    <3> QED
      BY <1>6, <1>7, <2>1, <3>1 DEF Woken
  <2>2. CASE dead # {}
    <3>1. state' = Wake(st, init)
      BY <1>3, <2>2 DEF InitTold
    <3>2. st \in [Tasks -> States]
      BY <1>7 DEF Woken
    <3>3. Woken(st, state', init)
      BY <1>0, <3>1, <3>2, WakeWakes
    <3>4. \A u \in Tasks : \/ state'[u] = zs[u]
                           \/ zs[u] = "TASK_INTERRUPTIBLE" /\ state'[u] = "TASK_RUNNING"
      BY <1>7, <3>3 DEF Woken
    <3>5. state'[q] # "TASK_INTERRUPTIBLE"
      BY <1>4, <1>7, <3>3 DEF Woken
    <3>6. state' \in [Tasks -> States] /\ state'[init] # "TASK_INTERRUPTIBLE"
      BY <3>3 DEF Woken
    <3> QED
      BY <1>6, <3>4, <3>5, <3>6
  <2> QED
    BY <2>1, <2>2
<1>9. DOMAIN signal' = Tasks /\ signal'[init] = {}
  <2> HIDE DEF q, es
  <2> QED
    BY <1>3, <1>4, ToldInit
<1>10. /\ flags' \in [Tasks -> SUBSET {"PF_PTRACED"}]
       /\ \A u \in Tasks \ Children(p) : flags'[u] = flags[u]
       /\ \A u \in Children(p) : flags'[u] = {} /\ u \in Alive /\ fam.p_pptr[u] = p
       /\ \A u \in Alive : fam.p_pptr[u] = p => u \in Children(p)
  <2>1. \A u \in Children(p) : u \in Tasks /\ u \in Alive /\ fam.p_pptr[u] = p
    BY <1>0 DEF Children, Alive
  <2>2. \A u \in Alive : fam.p_pptr[u] = p => u \in Children(p)
    BY DEF Children, Alive
  <2> QED
    BY <1>1, <1>3, <2>1, <2>2 DEF TypeOK
<1>11. /\ Tree(fam', Alive) /\ fam' \in Families /\ fam'.p_opptr = fam.p_opptr
       /\ \A u \in Alive : fam'.p_pptr[u] = IF fam.p_pptr[u] = p THEN init ELSE fam.p_pptr[u]
  <2>1. PICK f : f = fam
    OBVIOUS
  <2>2. f \in Families /\ Tree(f, Alive)
    BY <2>1 DEF IInv, TypeOK
  <2>3. /\ Tree(InheritAll(f, p), Alive) /\ InheritAll(f, p) \in Families
        /\ InheritAll(f, p).p_opptr = f.p_opptr
        /\ \A u \in Alive : InheritAll(f, p).p_pptr[u] = IF f.p_pptr[u] = p THEN init ELSE f.p_pptr[u]
    BY <1>1, <1>2, <2>2, InheritTree
  <2> QED
    BY <1>3, <2>1, <2>3
<1>12. /\ pc' \in [Tasks -> Places] /\ pc'[p] = "zombie" /\ \A u \in Tasks \ {p} : pc'[u] = pc[u]
       /\ DOMAIN arg' = Tasks /\ \A u \in Tasks \ {p} : arg'[u] = arg[u]
       /\ DOMAIN exit_code' = Tasks /\ \A u \in Tasks \ {p} : exit_code'[u] = exit_code[u]
  BY <1>1, <1>3 DEF TypeOK, Places
<1>13. \A c \in dead : c \in Children(p) /\ state[c] = "TASK_ZOMBIE"
  OBVIOUS
<1>14. \A c \in Children(p) : state[c] = "TASK_ZOMBIE" => c \in dead
  OBVIOUS
<1>15. Alive' = Alive
  BY <1>0, <1>1, <1>8 DEF Alive, Live
<1> HIDE DEF q, dead, es, zs, st
<1>16. TypeOK'
  BY <1>5, <1>8, <1>9, <1>10, <1>11, <1>12 DEF TypeOK
<1>17. Control'
  <2>1. \A u \in Tasks : Traced(u)' => Traced(u)
    BY <1>10 DEF Traced
  <2> QED
    BY <1>8, <1>12, <2>1 DEF IInv, Control
<1>18. InitOnlyWaits'
  <2>1. init \notin Children(p)
    BY <1>0 DEF Children
  <2> QED
    BY <1>0, <1>1, <1>8, <1>9, <1>10, <1>12, <2>1 DEF IInv, InitOnlyWaits, Traced
<1>19. \A u \in Tasks : Able(u) /\ u # p => Able(u)'
  BY <1>8, <1>12 DEF Able
<1>20. Able(init) /\ pc[init] # "exit_iput"
  BY DEF IInv, InitOnlyWaits, Able
<1>21. \A u \in Alive : /\ fam.p_pptr[u] \in Tasks /\ fam.p_pptr[u] # u /\ Able(fam.p_pptr[u])
                        /\ fam.p_opptr[u] \in Tasks /\ fam.p_opptr[u] # u /\ Able(fam.p_opptr[u])
                        /\ pc[fam.p_opptr[u]] # "exit_iput" /\ fam.p_opptr[u] # p /\ u # init /\ u \in Tasks
  BY <1>0, <1>1, <1>2 DEF IInv, Parents
<1>22. Parents'
  <2> SUFFICES ASSUME NEW u \in Alive
               PROVE  /\ fam'.p_pptr[u] \in Tasks /\ fam'.p_pptr[u] # u /\ Able(fam.p_pptr[u])'
                      /\ fam'.p_opptr[u] \in Tasks /\ fam'.p_opptr[u] # u /\ Able(fam.p_opptr[u])'
                      /\ pc'[fam'.p_opptr[u]] # "exit_iput"
    BY <1>15 DEF Parents
  <2>1. /\ fam'.p_opptr[u] \in Tasks /\ fam'.p_opptr[u] # u /\ Able(fam.p_opptr[u])'
        /\ pc'[fam'.p_opptr[u]] # "exit_iput"
    BY <1>11, <1>12, <1>19, <1>21
  <2>2. fam'.p_pptr[u] \in Tasks /\ fam'.p_pptr[u] # u /\ Able(fam.p_pptr[u])'
    BY <1>0, <1>1, <1>11, <1>19, <1>20, <1>21
  <2> QED
    BY <2>1, <2>2
<1>23. Fostered'
  <2> SUFFICES ASSUME NEW u \in Alive, fam'.p_pptr[u] \notin {fam'.p_opptr[u], init}
               PROVE  Traced(u)' \/ pc'[fam'.p_pptr[u]] = "exit_iput"
    BY <1>15 DEF Fostered
  <2>1. fam.p_pptr[u] # p /\ fam'.p_pptr[u] = fam.p_pptr[u] /\ fam.p_pptr[u] \notin {fam.p_opptr[u], init}
    BY <1>11
  <2>2. flags'[u] = flags[u] /\ pc'[fam.p_pptr[u]] = pc[fam.p_pptr[u]]
    BY <1>10, <1>12, <1>21, <2>1
  <2> QED
    BY <2>1, <2>2 DEF IInv, Fostered, Traced
<1>24. ASSUME NEW r \in Tasks, pc'[r] \in {"fork", "reap"}
       PROVE  /\ arg'[r] = arg[r] /\ pc'[r] = pc[r] /\ arg[r] \in Slots
              /\ state'[arg[r]] = state[arg[r]] /\ fam'.p_pptr[arg[r]] = r
  <2>1. r # p /\ arg'[r] = arg[r] /\ pc'[r] = pc[r]
    BY <1>12, <1>24
  <2>2. /\ arg[r] \in Slots /\ fam.p_pptr[arg[r]] = r
        /\ state[arg[r]] \in {"TASK_UNINTERRUPTIBLE", "TASK_ZOMBIE"}
    BY <1>24, <2>1 DEF IInv, Forking, Reaping
  <2>3. arg[r] \in Alive /\ arg[r] # p /\ arg[r] \in Tasks
    BY <1>0, <1>1, <2>2 DEF Alive, Live
  <2> QED
    BY <1>8, <1>11, <2>1, <2>2, <2>3
<1>25. Forking' /\ Reaping'
  BY <1>24 DEF IInv, Forking, Reaping
<1>26. Reporting'
  <2> SUFFICES ASSUME NEW r \in Tasks, pc'[r] = "report"
               PROVE  /\ arg'[r] \in Alive
                      /\ \/ fam'.p_opptr[arg'[r]] = r
                         \/ fam'.p_pptr[arg'[r]] = r /\ Traced(arg[r])'
    BY <1>15 DEF Reporting
  <2>1. r # p /\ pc'[r] = pc[r] /\ arg'[r] = arg[r]
    BY <1>12
  <2>2. PICK c : c = arg[r]
    OBVIOUS
  <2>3. c \in Alive /\ (fam.p_opptr[c] = r \/ (fam.p_pptr[c] = r /\ Traced(c)))
    BY <2>1, <2>2 DEF IInv, Reporting
  <2>4. CASE fam.p_opptr[c] = r
    BY <1>11, <2>1, <2>2, <2>3, <2>4
  <2>5. CASE fam.p_pptr[c] = r /\ Traced(c)
    <3>1. fam'.p_pptr[c] = r /\ flags'[c] = flags[c]
      BY <1>10, <1>11, <1>21, <2>1, <2>3, <2>5
    <3> QED
      BY <2>1, <2>2, <2>3, <2>5, <3>1 DEF Traced
  <2> QED
    BY <2>3, <2>4, <2>5
<1>27. StillAsleep
  BY <1>8, <1>12 DEF StillAsleep, Asleep
<1>28. NothingNew
  <2> SUFFICES ASSUME NEW c \in Slots, Live(c)', Asleep(fam.p_pptr[c])' PROVE Silent(c) \/ AsBefore(c)
    BY DEF NothingNew
  <2>1. c \in Alive /\ c \in Tasks /\ Live(c)
    BY <1>0, <1>15 DEF Alive
  <2>2. c # p
    <3> SUFFICES ASSUME c = p PROVE FALSE
      OBVIOUS
    <3>1. fam'.p_pptr[c] = q
      BY <1>2, <1>4, <1>11 DEF q
    <3> QED
      BY <1>8, <3>1 DEF Asleep
  <2>3. CASE fam.p_pptr[c] = p
    <3>1. fam'.p_pptr[c] = init /\ c \in Children(p) /\ flags'[c] = {}
      BY <1>10, <1>11, <2>1, <2>3
    <3>2. state[c] # "TASK_ZOMBIE"
      BY <1>8, <1>14, <3>1 DEF Asleep
    <3>3. state'[c] # "TASK_ZOMBIE"
      BY <1>8, <2>1, <2>2, <3>2
    <3> QED
      BY <3>1, <3>3 DEF Silent, Traced
  <2>4. CASE fam.p_pptr[c] # p
    <3>1. fam'.p_pptr[c] = fam.p_pptr[c] /\ flags'[c] = flags[c] /\ exit_code'[c] = exit_code[c]
      BY <1>10, <1>11, <1>12, <2>1, <2>2, <2>4
    <3>2. exit_signal'[c] = exit_signal[c]
      BY <1>5, <1>10, <1>13, <2>1, <2>2, <2>4
    <3>3. CASE state'[c] = state[c]
      BY <2>1, <3>1, <3>2, <3>3 DEF AsBefore
    <3>4. CASE state'[c] = "TASK_RUNNING"
      BY <3>4 DEF Silent
    <3> QED
      BY <1>8, <2>1, <2>2, <3>3, <3>4
  <2> QED
    BY <2>3, <2>4
<1>29. NoStrayZombie
  <2> SUFFICES ASSUME NEW c \in Slots, Awaited(c), state'[c] = "TASK_ZOMBIE", fam'.p_pptr[c] = init
               PROVE  exit_signal'[c] = "SIGCHLD"
    BY DEF NoStrayZombie, Awaited
  <2>1. c \in Tasks /\ c \in Alive
    BY <1>0, <1>15 DEF Alive, Live
  <2>2. CASE c = p
    BY <1>2, <1>4, <1>5, <1>11, <2>2 DEF q
  <2>3. CASE c # p /\ fam.p_pptr[c] = p
    BY <1>5, <1>8, <1>10, <1>14, <2>1, <2>3
  <2>4. CASE c # p /\ fam.p_pptr[c] # p
    BY <1>5, <1>8, <1>10, <1>11, <1>13, <2>1, <2>4 DEF Awaited
  <2> QED
    BY <2>2, <2>3, <2>4
<1>30. Waiting' /\ InitCanReap'
  BY <1>18, <1>27, <1>28, <1>29, WaitersKept, ZombiesKept
<1>31. Tree(fam, Alive)'
  BY <1>11, <1>15
<1> QED
  BY <1>16, <1>17, <1>18, <1>22, <1>23, <1>25, <1>26, <1>30, <1>31 DEF IInv

-----------------------------------------------------------------------------
(* A task changes its parent.                                              *)

\* c is in the list of q now; somebody may have been made to run, and
\* somebody may be done with a zombie.
Relinks(c, q) ==
    /\ fam' \in Families /\ Tree(fam', Alive) /\ fam'.p_opptr = fam.p_opptr
    /\ fam'.p_pptr[c] = q /\ \A u \in Tasks \ {c} : fam'.p_pptr[u] = fam.p_pptr[u]
    /\ state' \in [Tasks -> States] /\ pc' \in [Tasks -> Places] /\ DOMAIN arg' = Tasks
    /\ exit_signal' \in [Tasks -> {"SIGCHLD", "none"}] /\ flags' \in [Tasks -> SUBSET {"PF_PTRACED"}]
    /\ DOMAIN exit_code' = Tasks /\ DOMAIN signal' = Tasks /\ signal'[init] = {}
    /\ \A u \in Tasks :
          /\ \/ state'[u] = state[u]
             \/ state[u] \in {"TASK_INTERRUPTIBLE", "TASK_STOPPED"} /\ state'[u] = "TASK_RUNNING"
          /\ \/ pc'[u] = pc[u] /\ arg'[u] = arg[u]
             \/ pc[u] = "reap" /\ pc'[u] = "user"
    /\ \A u \in Tasks \ {c} : /\ exit_signal'[u] = exit_signal[u] /\ flags'[u] = flags[u]
                              /\ exit_code'[u] = exit_code[u]

\* q can have c: it made c, or traces it; it hears of what c has to say; and
\* nobody else has c in hand.
MayHave(c, q) ==
    /\ q # c /\ Able(q) /\ state[c] # "TASK_UNINTERRUPTIBLE"
    /\ Traced(c)' \/ q = fam.p_opptr[c]
    /\ Asleep(q)' => Silent(c)
    /\ Traced(c) => pc'[fam.p_pptr[c]] # "report"
    /\ state[c] = "TASK_ZOMBIE" => /\ \A r \in Tasks : pc'[r] = "reap" => arg[r] # c
                                   /\ q = init => exit_signal'[c] = "SIGCHLD"

LEMMA RelinkInv ==
    ASSUME IInv, NEW c \in Alive, NEW q \in Tasks, Relinks(c, q), MayHave(c, q)
    PROVE  IInv'
<1>0. init \in Tasks /\ init \notin Slots /\ Slots \subseteq Tasks /\ c \in Slots /\ c \in Tasks
      /\ Live(c) /\ Alive \subseteq Tasks
  BY ConstantsTypes DEF Alive
<1>1. /\ \A u \in Tasks : \/ state'[u] = state[u]
                          \/ /\ state[u] \in {"TASK_INTERRUPTIBLE", "TASK_STOPPED"}
                             /\ state'[u] = "TASK_RUNNING"
      /\ \A u \in Tasks : \/ pc'[u] = pc[u] /\ arg'[u] = arg[u]
                          \/ pc[u] = "reap" /\ pc'[u] = "user"
  BY DEF Relinks
<1>2. /\ fam'.p_opptr = fam.p_opptr
      /\ fam'.p_pptr[c] = q /\ \A u \in Tasks \ {c} : fam'.p_pptr[u] = fam.p_pptr[u]
  BY DEF Relinks
<1>3. /\ signal'[init] = {}
      /\ \A u \in Tasks \ {c} : /\ exit_signal'[u] = exit_signal[u] /\ flags'[u] = flags[u]
                                /\ exit_code'[u] = exit_code[u]
  BY DEF Relinks
<1>4. /\ q # c /\ Able(q) /\ state[c] # "TASK_UNINTERRUPTIBLE" /\ state[c] # "free"
      /\ Traced(c)' \/ q = fam.p_opptr[c]
      /\ Asleep(q)' => Silent(c)
      /\ Traced(c) => pc'[fam.p_pptr[c]] # "report"
      /\ state[c] = "TASK_ZOMBIE" => \A r \in Tasks : pc'[r] = "reap" => arg[r] # c
      /\ state[c] = "TASK_ZOMBIE" /\ q = init => exit_signal'[c] = "SIGCHLD"
  BY <1>0 DEF MayHave, Live
<1>5. TypeOK'
  BY DEF TypeOK, Relinks
<1>6. Alive' = Alive
  BY <1>0, <1>1 DEF Alive, Live
<1>7. Tree(fam, Alive)'
  BY <1>6 DEF Relinks
<1>8. Control'
  <2> SUFFICES ASSUME NEW u \in Tasks
               PROVE  /\ state'[u] \in {"free", "TASK_UNINTERRUPTIBLE"} =>
                            pc'[u] \in {"user", "zombie"} /\ ~Traced(u)'
                      /\ state'[u] = "TASK_INTERRUPTIBLE" => pc'[u] = "wait4"
                      /\ state'[u] = "TASK_STOPPED" => pc'[u] \in {"traced", "stopped"}
                      /\ state'[u] = "TASK_ZOMBIE" => pc'[u] = "zombie"
    BY DEF Control
  <2>1. /\ state[u] \in {"free", "TASK_UNINTERRUPTIBLE"} => pc[u] \in {"user", "zombie"} /\ ~Traced(u)
        /\ state[u] = "TASK_INTERRUPTIBLE" => pc[u] = "wait4"
        /\ state[u] = "TASK_STOPPED" => pc[u] \in {"traced", "stopped"}
        /\ state[u] = "TASK_ZOMBIE" => pc[u] = "zombie"
    BY DEF IInv, Control
  <2>2. state'[u] \in {"free", "TASK_UNINTERRUPTIBLE"} => (Traced(u)' <=> Traced(u))
    BY <1>1, <1>3, <1>4 DEF Traced
  <2> QED
    BY <1>1, <2>1, <2>2
<1>9. InitOnlyWaits'
  BY <1>0, <1>1, <1>3 DEF IInv, InitOnlyWaits, Traced
<1>10. \A u \in Tasks : Able(u) => Able(u)'
  BY <1>1 DEF Able
<1>11. \A u \in Tasks : pc'[u] = "exit_iput" <=> pc[u] = "exit_iput"
  BY <1>1
<1>12. Parents'
  <2> SUFFICES ASSUME NEW u \in Alive
               PROVE  /\ fam'.p_pptr[u] \in Tasks /\ fam'.p_pptr[u] # u /\ Able(fam.p_pptr[u])'
                      /\ fam'.p_opptr[u] \in Tasks /\ fam'.p_opptr[u] # u /\ Able(fam.p_opptr[u])'
                      /\ pc'[fam'.p_opptr[u]] # "exit_iput"
    BY <1>6 DEF Parents
  <2>1. /\ fam.p_pptr[u] \in Tasks /\ fam.p_pptr[u] # u /\ Able(fam.p_pptr[u])
        /\ fam.p_opptr[u] \in Tasks /\ fam.p_opptr[u] # u /\ Able(fam.p_opptr[u])
        /\ pc[fam.p_opptr[u]] # "exit_iput" /\ u \in Tasks
    BY <1>0 DEF IInv, Parents
  <2>2. /\ fam'.p_opptr[u] \in Tasks /\ fam'.p_opptr[u] # u /\ Able(fam.p_opptr[u])'
        /\ pc'[fam'.p_opptr[u]] # "exit_iput"
    BY <1>2, <1>10, <1>11, <2>1
  <2>3. fam'.p_pptr[u] \in Tasks /\ fam'.p_pptr[u] # u /\ Able(fam.p_pptr[u])'
    BY <1>2, <1>4, <1>10, <2>1
  <2> QED
    BY <2>2, <2>3
<1>13. Fostered'
  <2> SUFFICES ASSUME NEW u \in Alive, fam'.p_pptr[u] \notin {fam'.p_opptr[u], init}
               PROVE  Traced(u)' \/ pc'[fam'.p_pptr[u]] = "exit_iput"
    BY <1>6 DEF Fostered
  <2>1. CASE u = c
    BY <1>2, <1>4, <2>1
  <2>2. CASE u # c
    <3>1. /\ fam'.p_pptr[u] = fam.p_pptr[u] /\ flags'[u] = flags[u] /\ fam.p_pptr[u] \in Tasks
          /\ fam.p_pptr[u] \notin {fam.p_opptr[u], init}
      BY <1>0, <1>2, <1>3, <2>2 DEF IInv, Parents
    <3> QED
      BY <1>11, <3>1 DEF IInv, Fostered, Traced
  <2> QED
    BY <2>1, <2>2
<1>14. ASSUME NEW r \in Tasks, pc'[r] \in {"fork", "reap"}
       PROVE  /\ arg'[r] = arg[r] /\ pc'[r] = pc[r] /\ arg[r] \in Slots
              /\ state'[arg[r]] = state[arg[r]] /\ fam'.p_pptr[arg[r]] = r
  <2>1. arg'[r] = arg[r] /\ pc'[r] = pc[r]
    BY <1>1, <1>14
  <2>2. /\ arg[r] \in Slots /\ fam.p_pptr[arg[r]] = r
        /\ pc[r] = "fork" => state[arg[r]] = "TASK_UNINTERRUPTIBLE"
        /\ pc[r] = "reap" => state[arg[r]] = "TASK_ZOMBIE"
    BY <1>14, <2>1 DEF IInv, Forking, Reaping
  <2>3. arg[r] # c
    BY <1>4, <1>14, <2>1, <2>2
  <2>4. state'[arg[r]] = state[arg[r]]
    BY <1>0, <1>1, <1>14, <2>1, <2>2
  <2> QED
    BY <1>0, <1>2, <2>1, <2>2, <2>3, <2>4
<1>15. Forking' /\ Reaping'
  BY <1>14 DEF IInv, Forking, Reaping
<1>16. Reporting'
  <2> SUFFICES ASSUME NEW r \in Tasks, pc'[r] = "report"
               PROVE  /\ arg'[r] \in Alive
                      /\ \/ fam'.p_opptr[arg'[r]] = r
                         \/ fam'.p_pptr[arg'[r]] = r /\ Traced(arg[r])'
    BY <1>6 DEF Reporting
  <2>1. pc'[r] = pc[r] /\ arg'[r] = arg[r]
    BY <1>1
  <2>2. PICK x : x = arg[r]
    OBVIOUS
  <2>3. x \in Alive /\ (fam.p_opptr[x] = r \/ (fam.p_pptr[x] = r /\ Traced(x)))
    BY <2>1, <2>2 DEF IInv, Reporting
  <2>4. CASE fam.p_opptr[x] = r
    BY <1>2, <2>1, <2>2, <2>3, <2>4
  <2>5. CASE fam.p_pptr[x] = r /\ Traced(x)
    <3>1. x # c
      BY <1>4, <2>5
    <3>2. fam'.p_pptr[x] = r /\ flags'[x] = flags[x]
      BY <1>0, <1>2, <1>3, <2>3, <2>5, <3>1
    <3> QED
      BY <2>1, <2>2, <2>3, <2>5, <3>2 DEF Traced
  <2> QED
    BY <2>3, <2>4, <2>5
<1>17. StillAsleep
  BY <1>1 DEF StillAsleep, Asleep
<1>18. NothingNew
  <2> SUFFICES ASSUME NEW x \in Slots, Live(x)', Asleep(fam.p_pptr[x])' PROVE Silent(x) \/ AsBefore(x)
    BY DEF NothingNew
  <2>1. CASE x = c
    BY <1>2, <1>4, <2>1
  <2>2. CASE x # c /\ state'[x] = state[x]
    BY <1>0, <1>2, <1>3, <2>2 DEF AsBefore, Live
  <2>3. CASE x # c /\ state'[x] = "TASK_RUNNING"
    BY <2>3 DEF Silent
  <2> QED
    BY <1>0, <1>1, <2>1, <2>2, <2>3
<1>19. NoStrayZombie
  BY <1>0, <1>1, <1>2, <1>3, <1>4 DEF NoStrayZombie, Awaited
<1>20. Waiting' /\ InitCanReap'
  BY <1>9, <1>17, <1>18, <1>19, WaitersKept, ZombiesKept
<1> QED
  BY <1>5, <1>7, <1>8, <1>9, <1>12, <1>13, <1>15, <1>16, <1>20 DEF IInv

\* The family after Move, in a form the steps below can use.
LEMMA MovedFamily ==
    ASSUME IInv, NEW c \in Alive, NEW q \in Tasks, fam' = Move(fam, c, q)
    PROVE  /\ fam' \in Families /\ Tree(fam', Alive) /\ fam'.p_opptr = fam.p_opptr
           /\ fam'.p_pptr[c] = q /\ \A u \in Tasks \ {c} : fam'.p_pptr[u] = fam.p_pptr[u]
<1>1. PICK f : f = fam
  OBVIOUS
<1>2. f \in Families /\ Tree(f, Alive) /\ Alive \in SUBSET Slots /\ c \in Tasks
  BY <1>1, ConstantsTypes DEF IInv, TypeOK, Alive
<1>3. /\ Tree(Move(f, c, q), Alive) /\ Move(f, c, q) \in Families
      /\ Move(f, c, q).p_opptr = f.p_opptr
      /\ \A t \in Tasks : Move(f, c, q).p_pptr[t] = IF t = c THEN q ELSE f.p_pptr[t]
  BY <1>2, MoveTree
<1> QED
  BY <1>1, <1>2, <1>3

\* The zombie goes back to the one that made it, or is freed.
LEMMA ReapInv ==
    ASSUME IInv, NEW p \in Tasks, Reap(p)
    PROVE  IInv'
<1>0. init \in Tasks /\ init \notin Slots /\ Slots \subseteq Tasks
  BY ConstantsTypes
<1>1. TypeOK /\ pc[p] = "reap" /\ state[p] = "TASK_RUNNING" /\ Goto(p, "user", NULL)
  BY DEF IInv, Reap, Running
<1>2. PICK c : c = arg[p]
  OBVIOUS
<1>3. c \in Slots /\ c \in Tasks /\ c \in Alive /\ state[c] = "TASK_ZOMBIE" /\ fam.p_pptr[c] = p
  BY <1>0, <1>1, <1>2 DEF IInv, Reaping, Alive, Live
<1>4. PICK q : q = fam.p_opptr[c]
  OBVIOUS
<1>5. q \in Tasks /\ q # c /\ Able(q)
  BY <1>3, <1>4 DEF IInv, Parents
<1>6. CASE q = p
  <2>1. Free(c)
    BY <1>2, <1>3, <1>4, <1>6 DEF Reap
  <2> QED
    BY <1>1, <1>2, <1>3, <1>4, <1>6, <2>1, FreeInv
<1>7. CASE q # p
  <2>1. /\ fam' = Move(fam, c, q) /\ exit_signal' = ToldAs({c}, q)
        /\ signal' = Told({c}, q, ToldAs({c}, q)) /\ state' = Wake(state, q)
        /\ exit_code' = exit_code /\ flags' = flags
    BY <1>2, <1>3, <1>4, <1>7 DEF Reap
  <2>2. DOMAIN signal' = Tasks /\ signal'[init] = {}
    BY <1>5, <2>1, ToldInit
  <2>3. Woken(state, state', q)
    BY <1>1, <1>5, <2>1, WakeWakes DEF TypeOK
  <2>4. /\ exit_signal' \in [Tasks -> {"SIGCHLD", "none"}]
        /\ \A u \in Tasks \ {c} : exit_signal'[u] = exit_signal[u]
        /\ q = init => exit_signal'[c] = "SIGCHLD"
    BY <1>1, <1>3, <2>1 DEF TypeOK, ToldAs
  <2>5. /\ pc' \in [Tasks -> Places] /\ pc'[p] = "user" /\ \A u \in Tasks \ {p} : pc'[u] = pc[u]
        /\ DOMAIN arg' = Tasks /\ \A u \in Tasks \ {p} : arg'[u] = arg[u]
    BY <1>1 DEF TypeOK, Places, Goto
  <2>6. /\ fam' \in Families /\ Tree(fam', Alive) /\ fam'.p_opptr = fam.p_opptr
        /\ fam'.p_pptr[c] = q /\ \A u \in Tasks \ {c} : fam'.p_pptr[u] = fam.p_pptr[u]
    BY <1>3, <1>5, <2>1, MovedFamily
  <2>7. /\ \A u \in Tasks : \/ state'[u] = state[u]
                            \/ state[u] = "TASK_INTERRUPTIBLE" /\ state'[u] = "TASK_RUNNING"
        /\ state' \in [Tasks -> States] /\ state'[q] # "TASK_INTERRUPTIBLE"
    BY <2>3 DEF Woken
  <2>8. Relinks(c, q)
    BY <1>1, <2>1, <2>2, <2>4, <2>5, <2>6, <2>7 DEF Relinks, TypeOK
  <2>9. \A r \in Tasks : pc'[r] = "reap" => arg[r] # c
    BY <1>3, <2>5 DEF IInv, Reaping
  <2>10. pc'[fam.p_pptr[c]] # "report"
    BY <1>3, <2>5
  <2>11. MayHave(c, q)
    BY <1>3, <1>4, <1>5, <2>4, <2>7, <2>9, <2>10 DEF MayHave, Asleep
  <2> QED
    BY <1>3, <1>5, <2>8, <2>11, RelinkInv
<1> QED
  BY <1>6, <1>7

\* A task whose fork is not done is in the hand of the one that forks.
Making ==
    \A t \in Tasks :
        state[t] = "TASK_UNINTERRUPTIBLE" => \E q \in Tasks : pc[q] = "fork" /\ arg[q] = t

\* Somebody begins to trace c, dead or alive, which nobody has in hand.
LEMMA AttachInv ==
    ASSUME IInv, Making, NEW p \in Slots, NEW c \in Slots, PTRACE_ATTACH(p, c), ~InHand(c)
    PROVE  IInv'
<1>0. init \in Tasks /\ init \notin Slots /\ Slots \subseteq Tasks /\ p \in Tasks /\ c \in Tasks
  BY ConstantsTypes
<1>1. TypeOK /\ pc[p] = "user" /\ state[p] = "TASK_RUNNING" /\ p # c /\ ~Traced(c) /\ signal[init] = {}
  BY DEF IInv, InitOnlyWaits, PTRACE_ATTACH, InUser, Running
<1>2. /\ c \in Alive /\ state[c] # "TASK_UNINTERRUPTIBLE"
      /\ \A r \in Tasks : pc[r] = "reap" => arg[r] # c
  BY <1>0 DEF PTRACE_ATTACH, Alive, Making, InHand
<1>3. /\ flags' = [flags EXCEPT ![c] = {"PF_PTRACED"}]
      /\ fam' = IF fam.p_pptr[c] = p THEN fam ELSE Move(fam, c, p)
      /\ signal' = [signal EXCEPT ![c] = (@ \ {"SIGCONT"}) \cup {"SIGSTOP"}]
      /\ UNCHANGED <<state, exit_code, exit_signal, pc, arg>>
  BY DEF PTRACE_ATTACH
<1>4. /\ fam' \in Families /\ Tree(fam', Alive) /\ fam'.p_opptr = fam.p_opptr
      /\ fam'.p_pptr[c] = p /\ \A u \in Tasks \ {c} : fam'.p_pptr[u] = fam.p_pptr[u]
  <2>1. CASE fam.p_pptr[c] = p
    <3>1. fam' = fam
      BY <1>3, <2>1
    <3> QED
      BY <2>1, <3>1 DEF IInv, TypeOK
  <2>2. CASE fam.p_pptr[c] # p
    <3>1. fam' = Move(fam, c, p)
      BY <1>3, <2>2
    <3> QED
      BY <1>0, <1>2, <3>1, MovedFamily
  <2> QED
    BY <2>1, <2>2
<1>5. /\ flags' \in [Tasks -> SUBSET {"PF_PTRACED"}] /\ flags'[c] = {"PF_PTRACED"}
      /\ \A u \in Tasks \ {c} : flags'[u] = flags[u]
      /\ DOMAIN signal' = Tasks /\ signal'[init] = {}
  BY <1>0, <1>1, <1>3 DEF TypeOK
<1>6. Relinks(c, p)
  BY <1>1, <1>3, <1>4, <1>5 DEF Relinks, TypeOK
<1>7. MayHave(c, p)
  <2>1. Able(p) /\ ~Asleep(p)'
    BY <1>1, <1>3 DEF Able, Asleep
  <2>2. Traced(c)'
    BY <1>5 DEF Traced
  <2> QED
    BY <1>0, <1>1, <1>2, <1>3, <2>1, <2>2 DEF MayHave
<1> QED
  BY <1>0, <1>2, <1>6, <1>7, RelinkInv

\* The tracer lets c go, back to the one that made it.
LEMMA DetachInv ==
    ASSUME IInv, NEW p \in Slots, NEW c \in Slots, NEW d, PTRACE_DETACH(p, c, d)
    PROVE  IInv'
<1>0. init \in Tasks /\ init \notin Slots /\ Slots \subseteq Tasks /\ p \in Tasks /\ c \in Tasks
  BY ConstantsTypes
<1>1. /\ TypeOK /\ pc[p] = "user" /\ fam.p_pptr[c] = p /\ state[c] = "TASK_STOPPED" /\ signal[init] = {}
      /\ c \in Alive
  BY DEF IInv, InitOnlyWaits, PTRACE_DETACH, MayTrace, InUser, Running, Alive
<1>2. PICK q : q = fam.p_opptr[c]
  OBVIOUS
<1>3. q \in Tasks /\ q # c /\ Able(q)
  BY <1>1, <1>2 DEF IInv, Parents
<1>4. /\ flags' = [flags EXCEPT ![c] = {}]
      /\ state' = [state EXCEPT ![c] = "TASK_RUNNING"]
      /\ exit_code' = [exit_code EXCEPT ![c] = d]
      /\ fam' = Move(fam, c, q)
      /\ UNCHANGED <<exit_signal, signal, pc, arg>>
  BY <1>2 DEF PTRACE_DETACH
<1>5. /\ fam' \in Families /\ Tree(fam', Alive) /\ fam'.p_opptr = fam.p_opptr
      /\ fam'.p_pptr[c] = q /\ \A u \in Tasks \ {c} : fam'.p_pptr[u] = fam.p_pptr[u]
  BY <1>1, <1>3, <1>4, MovedFamily
<1>6. /\ flags' \in [Tasks -> SUBSET {"PF_PTRACED"}] /\ \A u \in Tasks \ {c} : flags'[u] = flags[u]
      /\ state' \in [Tasks -> States] /\ state'[c] = "TASK_RUNNING"
      /\ \A u \in Tasks \ {c} : state'[u] = state[u]
      /\ DOMAIN exit_code' = Tasks /\ \A u \in Tasks \ {c} : exit_code'[u] = exit_code[u]
  BY <1>0, <1>1, <1>4 DEF TypeOK, States
<1>7. Relinks(c, q)
  BY <1>1, <1>4, <1>5, <1>6 DEF Relinks, TypeOK
<1>8. MayHave(c, q)
  BY <1>1, <1>2, <1>3, <1>4, <1>6 DEF MayHave, Silent
<1> QED
  BY <1>1, <1>3, <1>7, <1>8, RelinkInv

-----------------------------------------------------------------------------
(* Everything but attaching.                                               *)

LEMMA ProceedInv ==
    ASSUME IInv, NEW p \in Tasks, Proceed(p)
    PROVE  IInv'
<1>1. CASE do_signal(p)
  BY <1>1, SignalInv
<1>2. CASE TracedResume(p) \/ StoppedResume(p) \/ ExitAgain(p)
  <2>1. p = init => ~sys_exit(p)
    <3> SUFFICES ASSUME p = init, sys_exit(p) PROVE FALSE
      OBVIOUS
    <3>1. pc[init] = "user"
      BY DEF sys_exit, InUser, Running
    <3> QED
      BY <1>2, <3>1 DEF TracedResume, StoppedResume, ExitAgain, Running
  <2> QED
    BY <1>2, <2>1, ResumeInv
<1>3. CASE ForkDone(p)
  BY <1>3, ForkDoneInv
<1>4. CASE ForkFails(p)
  BY <1>4, ForkFailsInv
<1>5. CASE do_exit(p)
  BY <1>5, ExitInv
<1>6. CASE Zombie(p)
  BY <1>6, ZombieInv
<1>7. CASE WaitResume(p)
  BY <1>7, WaitResumeInv
<1>8. CASE Report(p)
  BY <1>8, ReportInv
<1>9. CASE Reap(p)
  BY <1>9, ReapInv
<1> QED
  BY <1>1, <1>2, <1>3, <1>4, <1>5, <1>6, <1>7, <1>8, <1>9, Zenon DEF Proceed

\* What one task does to another.
LEMMA OtherInv ==
    ASSUME IInv, NEW p \in Slots, NEW c \in Slots,
           \/ \E sig \in Signals : sys_kill(p, c, sig)
           \/ PTRACE_KILL(p, c)
           \/ \E d \in ContSignals : PTRACE_CONT(p, c, d) \/ PTRACE_DETACH(p, c, d)
    PROVE  IInv'
<1>0. p \in Tasks
  BY ConstantsTypes
<1>1. CASE \E sig \in Signals : sys_kill(p, c, sig)
  BY <1>0, <1>1, KillInv
<1>2. CASE PTRACE_KILL(p, c)
  BY <1>0, <1>2, ContinueInv
<1>3. ASSUME NEW d \in ContSignals, PTRACE_CONT(p, c, d) PROVE IInv'
  BY <1>0, <1>3, ContinueInv
<1>4. ASSUME NEW d \in ContSignals, PTRACE_DETACH(p, c, d) PROVE IInv'
  BY <1>4, DetachInv
<1> QED
  BY <1>1, <1>2, <1>3, <1>4, Zenon

LEMMA CallInv ==
    ASSUME IInv, Call
    PROVE  IInv'
<1>0. Slots \subseteq Tasks /\ init \in Tasks /\ init \notin Slots
  BY ConstantsTypes
<1>1. CASE InitWaits
  BY <1>0, <1>1, WaitInv DEF InitWaits
<1>2. ASSUME NEW p \in Slots \ Root, NEW t \in Slots, NEW es \in ExitSignals, sys_fork(p, t, es)
      PROVE  IInv'
  BY <1>2, ForkInv
<1>3. ASSUME NEW p \in Slots \ Root, sys_exit(p) PROVE IInv'
  BY <1>0, <1>3, ResumeInv
<1>4. ASSUME NEW p \in Slots \ Root, PTRACE_TRACEME(p) PROVE IInv'
  BY <1>4, TraceMeInv
<1>5. ASSUME NEW p \in Slots, NEW opt \in WaitOptions, sys_wait4(p, opt) PROVE IInv'
  BY <1>0, <1>5, WaitInv
<1>6. ASSUME NEW p \in Slots, NEW c \in Slots,
             \/ \E sig \in Signals : sys_kill(p, c, sig)
             \/ PTRACE_KILL(p, c)
             \/ \E d \in ContSignals : PTRACE_CONT(p, c, d) \/ PTRACE_DETACH(p, c, d)
      PROVE  IInv'
  BY <1>6, OtherInv
<1> QED
  BY <1>1, <1>2, <1>3, <1>4, <1>5, <1>6, Zenon DEF Call

-----------------------------------------------------------------------------
(* Who is half made is in the hand of the one that forks.                  *)

\* Nobody new is half made, and whoever forks goes on forking.
ForksOn ==
    /\ \A t \in Tasks : state'[t] = "TASK_UNINTERRUPTIBLE" => state[t] = "TASK_UNINTERRUPTIBLE"
    /\ \A q \in Tasks : pc[q] = "fork" => pc'[q] = "fork" /\ arg'[q] = arg[q]

LEMMA MakingKept ==
    ASSUME Making, ForksOn
    PROVE  Making'
  BY DEF Making, ForksOn

\* wake_up_interruptible makes nobody wait for a fork.
LEMMA WakeAlone ==
    ASSUME NEW st, NEW q \in Tasks, DOMAIN st = Tasks, NEW t \in Tasks,
           Wake(st, q)[t] = "TASK_UNINTERRUPTIBLE"
    PROVE  st[t] = "TASK_UNINTERRUPTIBLE"
  BY DEF Wake

\* One task moves on, from a place that is not fork.
LEMMA GotoForksOn ==
    ASSUME TypeOK, NEW p \in Tasks, NEW l, NEW a, pc[p] # "fork", Goto(p, l, a)
    PROVE  \A q \in Tasks : pc[q] = "fork" => pc'[q] = "fork" /\ arg'[q] = arg[q]
  BY DEF TypeOK, Goto

LEMMA ScanForksOn ==
    ASSUME IInv, NEW p \in Tasks, NEW opt, NEW sig, pc[p] # "fork", Scan(p, opt, sig)
    PROVE  ForksOn
<1>1. TypeOK
  BY DEF IInv
<1>2. \E l, a : Goto(p, l, a)
  BY DEF Scan
<1>3. \E v \in {"TASK_RUNNING", "TASK_INTERRUPTIBLE"} : state' = [state EXCEPT ![p] = v]
  BY DEF Scan
<1>4. \A t \in Tasks : state'[t] = "TASK_UNINTERRUPTIBLE" => state[t] = "TASK_UNINTERRUPTIBLE"
  BY <1>1, <1>3 DEF TypeOK
<1> QED
  BY <1>1, <1>2, <1>4, GotoForksOn DEF ForksOn

LEMMA StopForksOn ==
    ASSUME IInv, NEW p \in Slots, NEW sig, NEW l, pc[p] # "fork", Live(p), Stop(p, sig, l)
    PROVE  ForksOn
<1>1. TypeOK /\ p \in Tasks /\ fam.p_pptr[p] \in Tasks
  BY ConstantsTypes DEF IInv, Parents, Alive
<1>2. Goto(p, l, NULL) /\ state' = Wake([state EXCEPT ![p] = "TASK_STOPPED"], fam.p_pptr[p])
  BY DEF Stop
<1>3. PICK st : st = [state EXCEPT ![p] = "TASK_STOPPED"]
  OBVIOUS
<1>4. DOMAIN st = Tasks /\ \A t \in Tasks : st[t] = "TASK_UNINTERRUPTIBLE" => state[t] = "TASK_UNINTERRUPTIBLE"
  BY <1>1, <1>3 DEF TypeOK
<1>5. \A t \in Tasks : state'[t] = "TASK_UNINTERRUPTIBLE" => st[t] = "TASK_UNINTERRUPTIBLE"
  BY <1>1, <1>2, <1>3, <1>4, WakeAlone
<1> QED
  BY <1>1, <1>2, <1>4, <1>5, GotoForksOn DEF ForksOn

\* Everything a task does on its own, the two ends of fork apart.
LEMMA ProceedForksOn ==
    ASSUME IInv, NEW p \in Tasks,
           \/ do_signal(p) \/ TracedResume(p) \/ StoppedResume(p)
           \/ do_exit(p) \/ Zombie(p) \/ ExitAgain(p)
           \/ WaitResume(p) \/ Report(p) \/ Reap(p)
    PROVE  ForksOn
<1>0. TypeOK /\ init \in Tasks /\ init \notin Slots /\ Slots \subseteq Tasks
      /\ (p = init \/ p \in Slots)
  BY ConstantsTypes DEF IInv, Tasks
<1>1. CASE do_signal(p)
  <2>1. p \in Slots /\ Live(p) /\ pc[p] # "fork"
    BY <1>0, <1>1 DEF do_signal, Running, Live, IInv, InitOnlyWaits
  <2>2. PICK sig : \/ \E l : Stop(p, sig, l)
                   \/ Default(p, sig)
    BY <1>1 DEF do_signal
  <2>3. CASE \E l : Stop(p, sig, l)
    BY <2>1, <2>3, StopForksOn
  <2>4. CASE Default(p, sig)
    <3>1. state' = state /\ \E l : Goto(p, l, NULL)
      BY <2>4 DEF Default
    <3> QED
      BY <1>0, <2>1, <3>1, GotoForksOn DEF ForksOn
  <2> QED
    BY <2>2, <2>3, <2>4
<1>2. CASE TracedResume(p) \/ StoppedResume(p) \/ do_exit(p) \/ ExitAgain(p) \/ Report(p)
  <2>1. state' = state /\ pc[p] # "fork" /\ \E l : Goto(p, l, NULL)
    BY <1>2 DEF TracedResume, StoppedResume, do_exit, ExitAgain, Report, Running, Default
  <2> QED
    BY <1>0, <2>1, GotoForksOn DEF ForksOn
<1>3. CASE Zombie(p)
  <2>1. pc[p] # "fork" /\ Live(p) /\ p \in Slots /\ Goto(p, "zombie", NULL)
    BY <1>0, <1>3 DEF Zombie, Running, Live, IInv, InitOnlyWaits
  <2>2. fam.p_pptr[p] \in Tasks
    BY <2>1 DEF IInv, Parents, Alive
  <2>3. PICK st, dead : /\ st = Wake([state EXCEPT ![p] = "TASK_ZOMBIE"], fam.p_pptr[p])
                        /\ state' = InitTold(st, dead)
    BY <1>3 DEF Zombie
  <2>4. PICK s0 : s0 = [state EXCEPT ![p] = "TASK_ZOMBIE"]
    OBVIOUS
  <2>5. DOMAIN s0 = Tasks /\ \A t \in Tasks : s0[t] = "TASK_UNINTERRUPTIBLE" => state[t] = "TASK_UNINTERRUPTIBLE"
    BY <1>0, <2>4 DEF TypeOK
  <2>6. st = Wake(s0, fam.p_pptr[p]) /\ DOMAIN st = Tasks
    BY <2>3, <2>4, <2>5 DEF Wake
  <2>7. \A t \in Tasks : st[t] = "TASK_UNINTERRUPTIBLE" => state[t] = "TASK_UNINTERRUPTIBLE"
    BY <2>2, <2>5, <2>6, WakeAlone
  <2>8. \A t \in Tasks : state'[t] = "TASK_UNINTERRUPTIBLE" => st[t] = "TASK_UNINTERRUPTIBLE"
    BY <1>0, <2>3, <2>6, WakeAlone DEF InitTold
  <2> QED
    BY <1>0, <2>1, <2>7, <2>8, GotoForksOn DEF ForksOn
<1>4. CASE WaitResume(p)
  <2>1. pc[p] # "fork" /\ ((\E sig : Scan(p, arg[p], sig)) \/
                           (state' = [state EXCEPT ![p] = "TASK_RUNNING"] /\ Goto(p, "user", NULL)))
    BY <1>4 DEF WaitResume
  <2>2. CASE \E sig : Scan(p, arg[p], sig)
    BY <2>1, <2>2, ScanForksOn
  <2>3. CASE state' = [state EXCEPT ![p] = "TASK_RUNNING"] /\ Goto(p, "user", NULL)
    <3>1. \A t \in Tasks : state'[t] = "TASK_UNINTERRUPTIBLE" => state[t] = "TASK_UNINTERRUPTIBLE"
      BY <1>0, <2>3 DEF TypeOK
    <3> QED
      BY <1>0, <2>1, <2>3, <3>1, GotoForksOn DEF ForksOn
  <2> QED
    BY <2>1, <2>2, <2>3
<1>5. CASE Reap(p)
  <2>1. pc[p] = "reap" /\ Goto(p, "user", NULL)
    BY <1>5 DEF Reap, Running
  <2>2. PICK c \in Slots : c = arg[p]
    BY <2>1 DEF IInv, Reaping
  <2>3. fam.p_opptr[c] \in Tasks
    BY <2>1, <2>2 DEF IInv, Reaping, Parents, Alive, Live
  <2>4. state' = Wake(state, fam.p_opptr[c]) \/ state' = [state EXCEPT ![c] = "free"]
    BY <1>5, <2>2 DEF Reap, Free
  <2>5. \A t \in Tasks : state'[t] = "TASK_UNINTERRUPTIBLE" => state[t] = "TASK_UNINTERRUPTIBLE"
    BY <1>0, <2>3, <2>4, WakeAlone DEF TypeOK
  <2> QED
    BY <1>0, <2>1, <2>5, GotoForksOn DEF ForksOn
<1> QED
  BY <1>1, <1>2, <1>3, <1>4, <1>5, Zenon

LEMMA ProceedMaking ==
    ASSUME IInv, Making, NEW p \in Tasks, Proceed(p)
    PROVE  Making'
<1>0. TypeOK /\ Slots \subseteq Tasks
  BY ConstantsTypes DEF IInv
<1>1. CASE ForkDone(p) \/ ForkFails(p)
  <2>1. PICK c \in Slots : c = arg[p]
    BY <1>1 DEF ForkDone, ForkFails, Running, IInv, Forking
  <2>2. \E v \in {"TASK_RUNNING", "free"} : state' = [state EXCEPT ![c] = v]
    BY <1>1, <2>1 DEF ForkDone, ForkFails, Free
  <2>3. \A t \in Tasks : state'[t] = "TASK_UNINTERRUPTIBLE" =>
            t # c /\ state[t] = "TASK_UNINTERRUPTIBLE"
    BY <1>0, <2>1, <2>2 DEF TypeOK
  <2>4. c # p /\ pc[c] # "fork"
    <3>1. pc[p] = "fork" /\ state[p] = "TASK_RUNNING" /\ state[c] = "TASK_UNINTERRUPTIBLE"
      BY <1>1, <2>1 DEF ForkDone, ForkFails, Running, IInv, Forking
    <3> QED
      BY <1>0, <2>1, <3>1 DEF IInv, Control
  <2>5. \A q \in Tasks \ {p} : pc[q] = "fork" => pc'[q] = "fork" /\ arg'[q] = arg[q]
    BY <1>0, <1>1, <2>1, <2>4 DEF ForkDone, ForkFails, TypeOK, Goto
  <2> SUFFICES ASSUME NEW t \in Tasks, state'[t] = "TASK_UNINTERRUPTIBLE"
               PROVE  \E q \in Tasks : pc'[q] = "fork" /\ arg'[q] = t
    BY DEF Making
  <2>6. PICK q \in Tasks : pc[q] = "fork" /\ arg[q] = t
    BY <2>3 DEF Making
  <2> QED
    BY <2>1, <2>3, <2>5, <2>6
<1>2. CASE ~(ForkDone(p) \/ ForkFails(p))
  BY <1>2, ProceedForksOn, MakingKept DEF Proceed
<1> QED
  BY <1>1, <1>2

LEMMA CallMaking ==
    ASSUME IInv, Making, Call
    PROVE  Making'
<1>0. TypeOK /\ Slots \subseteq Tasks /\ init \in Tasks
  BY ConstantsTypes DEF IInv
<1>1. ASSUME NEW p \in Tasks, NEW opt, sys_wait4(p, opt) PROVE Making'
  BY <1>1, ScanForksOn, MakingKept DEF sys_wait4, InUser, Running
<1>2. ASSUME NEW p \in Slots, NEW t \in Slots, NEW es, sys_fork(p, t, es) PROVE Making'
  <2>1. /\ state' = [state EXCEPT ![t] = "TASK_UNINTERRUPTIBLE"] /\ Goto(p, "fork", t)
        /\ pc[p] # "fork"
    BY <1>2 DEF sys_fork, InUser, Running
  <2>2. pc'[p] = "fork" /\ arg'[p] = t
    BY <1>0, <2>1 DEF TypeOK, Goto
  <2>3. \A q \in Tasks : pc[q] = "fork" => pc'[q] = "fork" /\ arg'[q] = arg[q]
    BY <1>0, <2>1, GotoForksOn
  <2>4. \A u \in Tasks \ {t} : state'[u] = state[u]
    BY <1>0, <2>1 DEF TypeOK
  <2> QED
    BY <1>0, <2>2, <2>3, <2>4 DEF Making
<1>3. ASSUME NEW p \in Slots, sys_exit(p) \/ PTRACE_TRACEME(p) PROVE Making'
  <2>1. state' = state /\ pc[p] = "user"
    BY <1>3 DEF sys_exit, PTRACE_TRACEME, InUser, Running
  <2>2. \A q \in Tasks : pc[q] = "fork" => pc'[q] = "fork" /\ arg'[q] = arg[q]
    BY <1>0, <1>3, <2>1 DEF sys_exit, PTRACE_TRACEME, TypeOK, Goto
  <2> QED
    BY <2>1, <2>2, MakingKept DEF ForksOn
<1>4. ASSUME NEW p \in Slots, NEW c \in Slots,
             \/ \E sig \in Signals : sys_kill(p, c, sig)
             \/ PTRACE_KILL(p, c)
             \/ \E d \in ContSignals : PTRACE_CONT(p, c, d) \/ PTRACE_DETACH(p, c, d)
      PROVE  Making'
  <2>1. pc' = pc /\ arg' = arg
    BY <1>4 DEF sys_kill, PTRACE_KILL, PTRACE_CONT, PTRACE_DETACH
  <2>2. state' = state \/ \E v : state' = [state EXCEPT ![c] = v] /\ (v = "TASK_RUNNING" \/ v = state[c])
    BY <1>4 DEF sys_kill, PTRACE_KILL, PTRACE_CONT, PTRACE_DETACH
  <2>3. \A t \in Tasks : state'[t] = "TASK_UNINTERRUPTIBLE" => state[t] = "TASK_UNINTERRUPTIBLE"
    BY <1>0, <2>2 DEF TypeOK
  <2> QED
    BY <2>1, <2>3, MakingKept DEF ForksOn
<1>5. CASE InitWaits
  BY <1>0, <1>1, <1>5 DEF InitWaits
<1>6. ASSUME NEW p \in Slots, NEW opt \in WaitOptions, sys_wait4(p, opt) PROVE Making'
  BY <1>0, <1>1, <1>6
<1> QED
  BY <1>2, <1>3, <1>4, <1>5, <1>6, Zenon DEF Call

-----------------------------------------------------------------------------
(* The theorems.                                                           *)

LEMMA InitMaking == Init => Making
  BY DEF Init, Making

\* Every step, unless a task in hand is attached to.
LEMMA NextInv ==
    ASSUME snatched \/ (IInv /\ Making), [Next]_vars
    PROVE  (snatched \/ (IInv /\ Making))'
<1>1. CASE snatched
  <2>1. snatched'
    BY <1>1 DEF Next, vars, PTRACE_ATTACH
  <2> QED
    BY <2>1
<1> SUFFICES ASSUME IInv, Making, ~snatched' PROVE IInv' /\ Making'
  BY <1>1
<1>2. ASSUME NEW p \in Tasks, Proceed(p) PROVE IInv' /\ Making'
  BY <1>2, ProceedInv, ProceedMaking
<1>3. CASE Call
  BY <1>3, CallInv, CallMaking
<1>4. ASSUME NEW p \in Slots, NEW c \in Slots, PTRACE_ATTACH(p, c) PROVE IInv' /\ Making'
  <2>1. ~InHand(c) /\ state' = state /\ pc' = pc /\ arg' = arg
    BY <1>4 DEF PTRACE_ATTACH
  <2>2. IInv'
    BY <1>4, <2>1, AttachInv
  <2>3. Making'
    BY <2>1, MakingKept DEF ForksOn
  <2> QED
    BY <2>2, <2>3
<1>5. CASE UNCHANGED vars
  <2>1. /\ fam' = fam /\ state' = state /\ exit_code' = exit_code /\ exit_signal' = exit_signal
        /\ flags' = flags /\ signal' = signal /\ pc' = pc /\ arg' = arg
    BY <1>5 DEF vars
  <2>2. TypeOK' /\ Control' /\ InitOnlyWaits'
    BY <2>1 DEF IInv, TypeOK, Control, InitOnlyWaits, Traced
  <2>3. SameFamily /\ SameHands
    BY <2>1 DEF SameFamily, SameHands, Alive, Live, Able, Traced
  <2>4. StillAsleep /\ NothingNew /\ NoStrayZombie
    BY <2>1 DEF StillAsleep, NothingNew, NoStrayZombie, AsBefore, Asleep, Awaited, Live
  <2>5. Making'
    BY <2>1, MakingKept DEF ForksOn
  <2> QED
    BY <2>2, <2>3, <2>4, <2>5, FamilyKept, HandsKept, WaitersKept, ZombiesKept DEF IInv
<1> QED
  BY <1>2, <1>3, <1>4, <1>5, Zenon DEF Next

\* The five pointers of every task, and the place of each task in the list of
\* its parent, are what REMOVE_LINKS and SET_LINKS expect; both parents can
\* still wait; and what a task that sleeps in fork or wait4 goes on with is
\* still there: for any number of tasks, whatever they do, until one of them
\* attaches to a task that another has in hand.
THEOREM ProcessInvariant == Spec => [](snatched \/ (IInv /\ Making))
<1>1. Init => snatched \/ (IInv /\ Making)
  BY InitInv, InitMaking
<1>2. (snatched \/ (IInv /\ Making)) /\ [Next]_vars => (snatched \/ (IInv /\ Making))'
  BY NextInv
<1> QED
  BY <1>1, <1>2, PTL DEF Spec

\* A tree of sound lists passes audit_ptree.
LEMMA TreeAudited ==
    ASSUME IInv
    PROVE  AuditPtree
<1>0. Slots \subseteq Tasks /\ NULL \notin Tasks /\ Alive \in SUBSET Slots /\ Alive \subseteq Tasks
      /\ fam \in Families
  BY ConstantsTypes DEF Alive, IInv, TypeOK
<1>1. PICK pos \in [Tasks -> Nat] : Older(fam, Alive, pos) /\ Younger(fam, Alive, Alive)
  BY DEF IInv, Tree
<1>2. SUFFICES ASSUME NEW t \in Alive
               PROVE  /\ \A q \in {fam.p_pptr[t], fam.p_cptr[t], fam.p_ysptr[t], fam.p_osptr[t]} \ {NULL} :
                            Live(q) /\ q # t
                      /\ fam.p_osptr[t] # NULL => /\ fam.p_pptr[fam.p_osptr[t]] = fam.p_pptr[t]
                                                  /\ fam.p_ysptr[fam.p_osptr[t]] = t
                      /\ fam.p_ysptr[t] # NULL => /\ fam.p_pptr[fam.p_ysptr[t]] = fam.p_pptr[t]
                                                  /\ fam.p_osptr[fam.p_ysptr[t]] = t
                      /\ fam.p_cptr[t] # NULL => /\ fam.p_pptr[fam.p_cptr[t]] = t
                                                 /\ fam.p_ysptr[fam.p_cptr[t]] = NULL
                      /\ \E i \in 1..N : Child(fam.p_pptr[t])[i] = t
  BY DEF AuditPtree, Alive, Here
<1>3. \A u \in Alive : Live(u) /\ u \in Tasks /\ pos[u] \in Nat
  BY <1>0 DEF Alive
<1>4. fam.p_pptr[t] \in Tasks /\ fam.p_pptr[t] # t /\ Live(fam.p_pptr[t])
  BY DEF IInv, Parents, Able, Live
\* Two neighbours.
<1>5. ASSUME NEW u \in Alive, fam.p_osptr[u] # NULL
      PROVE  /\ fam.p_osptr[u] \in Alive /\ fam.p_pptr[fam.p_osptr[u]] = fam.p_pptr[u]
             /\ pos[fam.p_osptr[u]] = pos[u] - 1 /\ fam.p_osptr[u] # u
  <2>1. pos[u] > 1
    BY <1>1, <1>3, <1>5 DEF Older
  <2>2. /\ fam.p_osptr[u] \in Alive /\ fam.p_pptr[fam.p_osptr[u]] = fam.p_pptr[u]
        /\ pos[fam.p_osptr[u]] = pos[u] - 1
    BY <1>1, <2>1 DEF Older
  <2> QED
    BY <1>3, <2>2
<1>6. fam.p_ysptr[t] # NULL => /\ fam.p_ysptr[t] \in Alive /\ fam.p_osptr[fam.p_ysptr[t]] = t
                               /\ fam.p_pptr[fam.p_ysptr[t]] = fam.p_pptr[t] /\ fam.p_ysptr[t] # t
  <2> SUFFICES ASSUME fam.p_ysptr[t] # NULL
               PROVE  /\ fam.p_ysptr[t] \in Alive /\ fam.p_osptr[fam.p_ysptr[t]] = t
                      /\ fam.p_pptr[fam.p_ysptr[t]] = fam.p_pptr[t] /\ fam.p_ysptr[t] # t
    OBVIOUS
  <2>1. fam.p_ysptr[t] \in Alive /\ fam.p_osptr[fam.p_ysptr[t]] = t
    BY <1>1 DEF Younger
  <2>2. t # NULL
    BY <1>0
  <2> QED
    BY <1>5, <2>1, <2>2
<1>7. fam.p_osptr[t] # NULL => fam.p_ysptr[fam.p_osptr[t]] = t
  <2> SUFFICES ASSUME fam.p_osptr[t] # NULL PROVE fam.p_ysptr[fam.p_osptr[t]] = t
    OBVIOUS
  <2>1. PICK o \in Alive : /\ o = fam.p_osptr[t] /\ fam.p_pptr[o] = fam.p_pptr[t]
                           /\ pos[o] = pos[t] - 1
    BY <1>5
  <2>2. pos[t] <= pos[fam.p_cptr[fam.p_pptr[t]]]
    BY <1>1 DEF Older
  <2>3. fam.p_cptr[fam.p_pptr[o]] # o
    BY <1>3, <2>1, <2>2
  <2>4. PICK y \in Alive : y = fam.p_ysptr[o] /\ fam.p_osptr[y] = o
    BY <1>1, <2>3 DEF Younger
  <2>5. o # NULL
    BY <1>0
  <2>6. fam.p_pptr[y] = fam.p_pptr[o] /\ pos[o] = pos[y] - 1
    BY <1>5, <2>4, <2>5
  <2>7. fam.p_pptr[y] = fam.p_pptr[t] /\ pos[y] = pos[t]
    BY <1>3, <2>1, <2>6
  <2> QED
    BY <1>1, <2>1, <2>4, <2>7 DEF Older
<1>8. fam.p_cptr[t] # NULL => /\ fam.p_cptr[t] \in Alive /\ fam.p_pptr[fam.p_cptr[t]] = t
                              /\ fam.p_ysptr[fam.p_cptr[t]] = NULL
  BY <1>1, <1>3 DEF Older, Younger
<1>9. \E i \in 1..N : Child(fam.p_pptr[t])[i] = t
  <2>1. PICK q \in Tasks : q = fam.p_pptr[t]
    BY <1>4
  <2>2. Tree(fam, Alive)
    BY DEF IInv
  <2>3. \A u \in Alive : fam.p_pptr[u] = q => \E i \in 1..N : Child(q)[i] = u
    BY <1>0, <2>2, ChildList
  <2> QED
    BY <2>1, <2>3
<1>10. fam.p_cptr[t] # t
  BY <1>0, <1>4, <1>8
<1>11. \A q \in {fam.p_pptr[t], fam.p_cptr[t], fam.p_ysptr[t], fam.p_osptr[t]} \ {NULL} : Live(q) /\ q # t
  BY <1>3, <1>4, <1>5, <1>6, <1>8, <1>10
<1> QED
  BY <1>5, <1>6, <1>7, <1>8, <1>9, <1>11

\* The family always passes audit_ptree: forking, dying, tracing, detaching
\* and handing back a zombie relink it and leave a tree of sound lists, for
\* any number of tasks.
THEOREM FamilyIsATree == Spec => []AuditPtree
<1>1. snatched \/ (IInv /\ Making) => AuditPtree
  BY TreeAudited DEF AuditPtree
<1>2. Spec => [](snatched \/ (IInv /\ Making))
  BY ProcessInvariant
<1> QED
  BY <1>1, <1>2, PTL

\* do_exit leaves no task with a dead parent or a dead original parent, and
\* init is able to reap every zombie it is given.
THEOREM NobodyIsOrphaned == Spec => []OrphansAdopted
<1>1. snatched \/ (IInv /\ Making) => OrphansAdopted
  BY ConstantsTypes DEF IInv, Parents, Able, Live, Alive, Here, OrphansAdopted, ParentsAlive
<1>2. Spec => [](snatched \/ (IInv /\ Making))
  BY ProcessInvariant
<1> QED
  BY <1>1, <1>2, PTL

\* Whoever dies, stops or hands over a zombie wakes the one that waits for
\* it: no task sleeps in wait4 while it has a child to report.
THEOREM WaitersAreWoken == Spec => []NoLostWakeup
<1>1. snatched \/ (IInv /\ Making) => NoLostWakeup
  BY DEF IInv, Waiting, NoLostWakeup
<1>2. Spec => [](snatched \/ (IInv /\ Making))
  BY ProcessInvariant
<1> QED
  BY <1>1, <1>2, PTL

\* The child that fork, or wait4, goes on with after it has slept is still a
\* task, and the zombie that wait4 frees is still dead: whatever else happens
\* meanwhile, other zombies attached to, killed again and handed back
\* included, unless somebody attaches to that very task.
THEOREM NothingInHandIsFreed == Spec => []NoUseAfterFree
<1>1. snatched \/ (IInv /\ Making) => NoUseAfterFree
  BY DEF IInv, Forking, Reaping, Reporting, Alive, Live, NoUseAfterFree
<1>2. Spec => [](snatched \/ (IInv /\ Making))
  BY ProcessInvariant
<1> QED
  BY <1>1, <1>2, PTL

=============================================================================
