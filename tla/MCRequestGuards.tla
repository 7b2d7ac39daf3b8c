--------------------------- MODULE MCRequestGuards ---------------------------
(* A session each of a user and an admin; the devices have their own address. *)
EXTENDS RequestGuards, TLC

CONSTANTS alice, bob, s1, phone, office, mobile

MCSubject == [s \in Sid |-> IF s = s1 THEN alice ELSE bob]
MCAddressOf == [a \in Agent |-> IF a = phone THEN mobile ELSE office]
MCRateLimit == [b \in {"auth", "chat", "subscription"} |-> 2]

RequestSymmetry == Permutations(Request)
=============================================================================
