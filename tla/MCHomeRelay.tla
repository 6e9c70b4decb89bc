------------------------------ MODULE MCHomeRelay ------------------------------
(***************************************************************************)
(* Two start processes, three identities of which one owns the key file or *)
(* none does yet, bundles of another with and without encryption keys, one *)
(* home relay, which pins, or none, two items at one path, two             *)
(* pin requests in flight, and a cache with room for three contents of     *)
(* equal size.  A behaviour is short on one side or on the other.          *)
(***************************************************************************)
EXTENDS HomeRelay

CONSTANTS A, B, C, p1, p2, x, y, o1, o2, home, q1, q2

MCSize(c) == 1

MCBundles == {[id |-> B, keys |-> B], [id |-> B, keys |-> NoFile]}

\* Nothing at a path yet, or one item.
NothingYet == [i \in {A, B, C} |-> <<>>]

MCLogs == {NothingYet} \cup {[NothingYet EXCEPT ![A] = <<[path |-> home, cid |-> c]>>] : c \in {x, y}}

\* Every budget has room for the start of a daemon; the last one, for a pin
\* by one identity, the import of another, a restart and a path of its own.
Events(m, h, k) == [machine |-> m, home |-> h, kinds |-> k]
MCBudgets(k, l) ==
  LET lives == {"start", "stop", "crash"}
      acts == {"start", "publish", "pin", "trouble"}
  IN IF k = NoFile
     THEN {b \in {Events(4, 0, lives \cup {"console", "root"})} : l = NothingYet}
     ELSE IF l = NothingYet
     THEN {Events(6, 0, lives \cup {"local"}), Events(6, 0, lives \cup {"root"}),
           Events(5, 0, lives \cup {"console", "settings"}), Events(1, 4, acts)}
     ELSE {Events(1, 3, acts), Events(2, 2, acts \cup {"crash"}),
           Events(4, 2, {"start", "stop", "replace", "publish", "pin"})}

\* The processes, items, requests and other people's contents are alike.
MCSymmetry == Permutations({p1, p2}) \cup Permutations({x, y})
              \cup Permutations({o1, o2}) \cup Permutations({q1, q2})
=============================================================================
