--------------------------- MODULE MCAppSessions ---------------------------
EXTENDS AppSessions, TLC

A == <<"a">>
AB == <<"a", "b">>
ABC == <<"a", "b", "c">>
MCPaths == {AB, ABC}
MCIdentities == {"me", "other"}

\* Everything an app can ask for, on and under /a.
Everything == {Plain(k) : k \in PlainKinds}
                 \union {OnPath(k, Below(A)) : k \in PathKinds \ {"publish"}}
                 \union {OnPath("publish", Exactly(AB)),
                         OfIdentity("enumerate", "any", Below(A)),
                         OfIdentity("subscribe", "me", Below(A))}
MCAsks == {Everything}

\* All of it; a part of it; and three that are refused: under /a/b when /a/b was
\* asked for, everywhere, and not a capability.
MCApprovals == {{}, {OfIdentity("enumerate", "self", Below(AB)), OnPath("delete", Exactly(AB))},
                {OnPath("publish", Below(AB))}, {OnPath("delete", Below(<< >>))},
                {[kind |-> "unknown"]}}

Symmetry == Permutations(Requests)
=============================================================================
