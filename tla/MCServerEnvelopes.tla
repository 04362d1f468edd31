------------------------- MODULE MCServerEnvelopes -------------------------
(* Small instances of ServerEnvelopes for TLC. *)
EXTENDS ServerEnvelopes

\* A message in three segments and one in two among three that come whole.
Mixed == <<0, 3, 0, 2, 0>>
============================================================================
