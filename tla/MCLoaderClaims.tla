----------------------------- MODULE MCLoaderClaims -----------------------------
(***************************************************************************)
(* What the documentation says of a loaded database and some documents do  *)
(* not show.                                                               *)
(***************************************************************************)
EXTENDS MCLoader, Functions

\* An aggregate of an argument type, and a container that extends another
\* under criteria.
ClaimDocuments ==
    {<<Type("parameterType", 1, "q", <<>>), Parameter("x", "q"),
       Container("a", NoRef, <<>>, <<Entry("parameterRef", "x")>>),
       Container("b", "a", <<criterion>>, <<>>),
       Type("argumentType", 5, "t", <<>>), Type("argumentType", 5, "p", of)>> :
        criterion \in Criterion1, of \in Lists({"q", "t"}, 2)}

ClaimSpec ==
    /\ Begins(ClaimDocuments)
    /\ [][MCNext]_MCVars
-----------------------------------------------------------------------------
\* containers.rs:186 of criteria out of scope: "so an out-of-scope
\* discriminator can never quietly select the wrong container."  A condition
\* of a list whose parameter is not found is left out and the others select.
ConditionsAreKept ==
    \A c \in DOMAIN containers : \A i \in DOMAIN Body(c).criteria :
        LET criterion == Body(c).criteria[i]
            kept      == containers[c].restriction[i]
        IN  kept.form = "unsupported" \/ Len(kept.parameters) = Len(criterion.refs)
=============================================================================
