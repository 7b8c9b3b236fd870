------------------------------- MODULE MCXmlTree -------------------------------
(***************************************************************************)
(* Documents over a known element, an unknown one and a skipped section.   *)
(***************************************************************************)
EXTENDS XmlTree

MCElements ==
  {[tag |-> "Parameter", attributes |-> <<"name">>],
   [tag |-> "unknown",   attributes |-> <<"xmlns", "note", "name">>],
   [tag |-> "unknown",   attributes |-> <<"bad">>],
   [tag |-> "AliasSet",  attributes |-> <<>>]}
MCVocabulary == {"Parameter", "AliasSet", "name"}
MCSections   == {"AliasSet"}
===============================================================================
