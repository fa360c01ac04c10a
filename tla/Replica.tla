------------------------------ MODULE Replica ------------------------------
(***************************************************************************)
(* What Driver.Open of db/db.go promises the users of a graph, whatever    *)
(* its mutexes, watchers and failures do: the file of a name is a version  *)
(* that was published for the name's address, and only moves forward; a    *)
(* connection sees the file as it was when the connection was opened or    *)
(* last re-opened, and what it sees never goes back either.  How long a    *)
(* connection may stay behind is not promised.  DbDriver implements this   *)
(* specification.                                                          *)
(***************************************************************************)
EXTENDS Naturals

CONSTANTS Names, Addrs, HexToAddress, Openers

VARIABLES
    published,  \* the last version published for an address
    file,       \* the version of the file of a name
    name,       \* the name an opener asks for
    open,       \* the openers that have a connection
    ver         \* the version the connection sees

vars == <<published, file, name, open, ver>>

Init ==
    /\ published = [a \in Addrs |-> 0]
    /\ file = [n \in Names |-> 0]
    /\ name \in [Openers -> Names]
    /\ open = {}
    /\ ver = [p \in Openers |-> 0]

Publish(a) ==
    /\ published' = [published EXCEPT ![a] = @ + 1]
    /\ UNCHANGED <<file, name, open, ver>>

Fetch(n) ==
    /\ \E v \in file[n] .. published[HexToAddress[n]] :
          file' = [file EXCEPT ![n] = v]
    /\ UNCHANGED <<published, name, open, ver>>

Ask(p, n) ==
    /\ p \notin open
    /\ name' = [name EXCEPT ![p] = n]
    /\ UNCHANGED <<published, file, open, ver>>

Open(p) ==
    /\ p \notin open
    /\ open' = open \cup {p}
    /\ ver' = [ver EXCEPT ![p] = file[name[p]]]
    /\ UNCHANGED <<published, file, name>>

Reopen(p) ==
    /\ p \in open
    /\ ver[p] <= file[name[p]]
    /\ ver' = [ver EXCEPT ![p] = file[name[p]]]
    /\ UNCHANGED <<published, file, name, open>>

Close(p) ==
    /\ p \in open
    /\ open' = open \ {p}
    /\ UNCHANGED <<published, file, name, ver>>

Next ==
    \/ \E a \in Addrs : Publish(a)
    \/ \E n \in Names : Fetch(n)
    \/ \E p \in Openers :
          \/ \E n \in Names : Ask(p, n)
          \/ Open(p) \/ Reopen(p) \/ Close(p)

Spec == Init /\ [][Next]_vars
=============================================================================
