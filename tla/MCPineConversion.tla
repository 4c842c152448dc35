-------------------------- MODULE MCPineConversion --------------------------
(* Instances of PineConversion for TLC.                                    *)
EXTENDS PineConversion, TLC

CONSTANTS r1, r2, r3, u1, u2, i1, i2, i3, v1, v2, w1, w2

OneOwner == [r \in Requests |-> u1]
TwoOwners == [r \in Requests |-> IF r = r3 THEN u2 ELSE u1]

\* r2 tries the source of r1 again; r3 is for another source, or for the same
\* source with other options.
OtherSource == [r \in Requests |-> IF r = r3 THEN i3 ELSE i1]
OtherOptions == [r \in Requests |-> IF r = r3 THEN i2 ELSE i1]
OutputOf == [i \in Identities |-> IF i = i3 THEN v2 ELSE v1]

=============================================================================
