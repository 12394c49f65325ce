------------------------------ MODULE MCSkills ------------------------------
(***************************************************************************)
(* Arguments of the skills, for TLC.                                       *)
(***************************************************************************)
EXTENDS Skills

MCWords == UNION {[1..k -> 1..2] : k \in 0..3}
MCPatterns == UNION {[1..k -> {1, 2, Star, Query}] : k \in 0..3}
MCNames == UNION {[1..k -> {1, 2, Star}] : k \in 0..3}
MCPayloads == [1..3 -> 0..9]
MCSerials == [1..7 -> {0, 9}]
MCNumbers == {-IntLimit} \union -2..7

=============================================================================
