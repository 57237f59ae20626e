------------------------------ MODULE MCRedact ------------------------------
(* All texts up to a length for TLC, with card numbers scaled down.        *)
EXTENDS Redact

CONSTANT MaxLength       \* bound: characters of a text

MCText == UNION {[1..n -> Char] : n \in 0..MaxLength}
=============================================================================
