------------------------------ MODULE ByteLocks ------------------------------
(***************************************************************************)
(* What POSIX record locking promises, byte by byte: the abstract          *)
(* specification that the lock list of fs/locks.c implements.  An owner    *)
(* holds each byte of the file not at all, for reading or for writing; a   *)
(* request over a range of bytes is granted as a whole or not at all.      *)
(***************************************************************************)
EXTENDS Integers

CONSTANTS Owners, Bytes

LockTypes == {"F_RDLCK", "F_WRLCK"}

VARIABLE held   \* held[o][b]: the lock that owner o has on byte b

\* No other owner's lock stands in the way of a lock of type t on the bytes B.
Allowed(o, t, B) ==
    \A q \in Owners \ {o} :
        LET other == held[q] IN
        \A b \in B : \/ other[b] = "F_UNLCK"
                     \/ other[b] = "F_RDLCK" /\ t = "F_RDLCK"

Init == held = [o \in Owners |-> [b \in Bytes |-> "F_UNLCK"]]

\* The locks of o after its bytes B became t.
Changed(o, t, B) == LET own == held[o] IN [b \in Bytes |-> IF b \in B THEN t ELSE own[b]]

\* o gets a lock of type t on the bytes B, in place of what it had there.
Lock(o, t, B) ==
    /\ Allowed(o, t, B)
    /\ held' = [held EXCEPT ![o] = Changed(o, t, B)]

\* o gives up the bytes B.
Unlock(o, B) == held' = [held EXCEPT ![o] = Changed(o, "F_UNLCK", B)]

Ranges == {{b \in Bytes : s <= b /\ b <= e} : s, e \in Bytes}

Next ==
    \E o \in Owners, B \in Ranges :
        Unlock(o, B) \/ \E t \in LockTypes : Lock(o, t, B)

Spec == Init /\ [][Next]_held

TypeOK == held \in [Owners -> [Bytes -> LockTypes \cup {"F_UNLCK"}]]

\* A byte locked for writing is locked by nobody else.
Exclusion ==
    \A o, q \in Owners : \A b \in Bytes :
        o # q /\ held[o][b] = "F_WRLCK" => held[q][b] = "F_UNLCK"

=============================================================================
