------------------------------ MODULE MCClient ------------------------------
(***************************************************************************)
(* Three parts of a client that do not act on each other, checked in one   *)
(* run: the topics that carry changes to bean caches (Broadcast), the      *)
(* conversion of rows to beans, and the indexes of a bean cache.  A        *)
(* behaviour is one of one part; the other two stay as they begin.         *)
(***************************************************************************)
EXTENDS MCBroadcast, BeanConversion, BeanIndexes

VARIABLE part

clientVars == <<part, vars, conversionVars, allIndexVars>>

\* A row that fails to convert, one too long for the pipe, and a good one.
RowQualities == <<{"bad"}, {"long"}, {"good"}>>

ClientInit ==
    /\ part \in {"topics", "conversion", "indexes"}
    /\ Init
    /\ ConversionInit
    /\ IndexInit
    /\ part # "topics" => served = [k \in Keys |-> 0]

ClientNext ==
    \/ part = "topics" /\ Next /\ UNCHANGED <<part, conversionVars, allIndexVars>>
    \/ part = "conversion" /\ ConversionNext /\ UNCHANGED <<part, vars, allIndexVars>>
    \/ part = "indexes" /\ IndexNext /\ UNCHANGED <<part, vars, conversionVars>>

ClientSpec == ClientInit /\ [][ClientNext]_clientVars
=============================================================================
