------------------------------ MODULE MCProcess -------------------------------
(* The instance of Process for TLC: words of 64 values, and policies          *)
(* that differ from a sound one in one place, or in three that one product    *)
(* or sum relates.                                                            *)
EXTENDS Process

Limits == [count |-> 2, bytes |-> 4, work |-> 6, icount |-> 1, iwork |-> 4, slots |-> 2, weight |-> 1]
Good == [g |-> [body |-> 2, messages |-> 1, text |-> 1, tokens |-> 3, cweight |-> 2, units |-> 3,
                base |-> 2, cap |-> 6,
                queueT |-> 1, bodyT |-> 1, upT |-> 2, streamRead |-> 1, streamEvent |-> 1,
                respBody |-> 4, event |-> 3, events |-> 2,
                connect |-> 1, tls |-> 1, respHeader |-> 1, idleConn |-> 1,
                headerBytes |-> 2, upConns |-> 2,
                header |-> 1, write |-> 1, idle |-> 1, grace |-> 1, force |-> 1,
                envelope |-> 3, conns |-> 2],
         s |-> [i \in 0..2 |-> Limits]]
Values == {0, 2, 3, 8, 31, 63}
Times == {0, 2, 5, 32, 33}
G(P, f) == {[p EXCEPT !.g[f] = v] : p \in P, v \in Values}
T(P, f) == {[p EXCEPT !.g[f] = v] : p \in P, v \in Times}
S(P, i, f) == {[p EXCEPT !.s[i][f] = v] : p \in P, v \in Values}
AllTimes == HTTPTimes \cup TransportTimes \cup ServerTimes \cup {"force"}
MCPolicies ==
  {G({Good}, f) : f \in GatewayValues} \cup {T({Good}, f) : f \in AllTimes}
    \cup {S({Good}, i, f) : i \in 0..2, f \in ScopeValues}
    \cup {S(S(G({Good}, "body"), 1, "slots"), 1, "bytes"),
          S(S(G({Good}, "units"), 2, "weight"), 0, "icount"),
          G(S(G({Good}, "base"), 1, "weight"), "cap"),
          G(G(G({Good}, "tokens"), "cweight"), "body"),
          G(G(G({Good}, "respBody"), "event"), "events"),
          G(G({Good}, "envelope"), "conns"),
          T(T(T({Good}, "bodyT"), "queueT"), "write"),
          T(T({Good}, "grace"), "force")}
=============================================================================
