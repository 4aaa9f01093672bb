---------------------------- MODULE MCConfigHistory ----------------------------
(* Small instances of ConfigHistory for TLC. *)
EXTENDS ConfigHistory, TLC

CONSTANTS
  plain,                  \* a text without variables that an administrator submits
  unknown,                \* one with a variable nobody knows
  built                   \* the original with the names built in

MCTexts == {Original, built, plain, unknown, Blank, Garbled}

\* Only the original has variables that are known.
MCShown ==
  [t \in MCTexts |->
     CASE t = Original -> built [] t = unknown -> Unrendered [] OTHER -> t]

Interchangeable ==
  Permutations(Prompts) \cup Permutations(Templates) \cup Permutations(Workers)
===============================================================================
