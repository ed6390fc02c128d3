---------------------------- MODULE MCFaultflow ----------------------------
(* Two chains of three and two cells, three shift cycles, a seed of three    *)
(* bits, two compactor outputs; raw setups in which the first chain's         *)
(* instrument is the WRITE one, the second's, and both.                       *)
EXTENDS FaultflowPlay

MCLength == <<3, 2>>
MCPhaseTaps == <<{0, 2}, {1}>>
MCFanout == <<{1, 2}, {2}>>

Loads(chains) == [chains -> [1 .. 3 -> BOOLEAN]]
Padded(chains) == {f \in Loads(chains) : 2 \in chains => ~f[2][1]}
NoLoad == << >>
Response1 == << <<TRUE, FALSE, FALSE>>, <<FALSE, TRUE>> >>
Response2 == << <<TRUE, TRUE, FALSE>>, <<TRUE, TRUE>> >>
Pattern(load, care, response, observed) ==
    [load |-> load, care |-> care, response |-> response, observed |-> observed]

\* The care bits of a compressed load: all, as many as the seed has bits, two
\* that depend on one another, more than the seed can meet, one.
Cares == { AllCare, {<<1, 1>>, <<1, 2>>, <<2, 3>>}, {<<1, 3>>, <<2, 2>>},
           {<<1, 1>>, <<1, 3>>, <<2, 2>>, <<2, 3>>}, {<<1, 3>>} }

Compressed ==
    { <<Pattern(l, k, Response1, {1, 2}), Pattern(m, AllCare, Response2, {2})>> :
        l \in Loads({1, 2}), k \in Cares, m \in {NoLoad, [c \in {2} |-> <<TRUE, FALSE, TRUE>>]} }
    \union { <<Pattern(l, AllCare, Response1, {}), Pattern(m, AllCare, Response2, {1, 2})>> :
        l \in Loads({1}), m \in Loads({2}) }
Compacted ==
    { <<Pattern(l, AllCare, Response1, o), Pattern(m, AllCare, Response2, {1, 2})>> :
        l \in Padded({1, 2}), o \in {{}, {1}, {1, 2}}, m \in Padded({2}) \union {NoLoad} }
\* A raw pattern loads either chain, both or none and observes any: the READ
\* chain while the WRITE one is loaded, and the lists no instruments suit.
RawLoads == Padded({1}) \union Padded({2}) \union Padded({1, 2}) \union {NoLoad}
Raw ==
    { <<Pattern(l, AllCare, Response1, o), Pattern(m, AllCare, Response2, {1, 2})>> :
        l \in RawLoads, o \in {{}, {1}, {1, 2}},
        m \in Padded({2}) \union {[c \in {1} |-> <<FALSE, TRUE, TRUE>>], NoLoad} }
MCPatternLists == [compressed |-> Compressed, raw |-> Raw, compacted |-> Compacted]

\* A chain loaded through an instrument has a WRITE one, a chain read has a READ one.
Setup(mode, declared, writes) == [mode |-> mode, declared |-> declared, writes |-> writes]
\* The compacted retargeter with scan_enable left undeclared has its own run.
MCSetups ==
    { Setup("raw", TRUE, {1}), Setup("raw", FALSE, {2}), Setup("raw", TRUE, {1, 2}),
      Setup("compressed", TRUE, {}), Setup("compressed", FALSE, {}),
      Setup("compacted", TRUE, {1, 2}) }
UndeclaredSetups == {Setup("compacted", FALSE, {1, 2})}
=============================================================================
