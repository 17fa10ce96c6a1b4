------------------------------- MODULE Blocks -------------------------------
(* The data the central server and its abstract specification share.        *)
(*                                                                          *)
(* A block is what tells it apart: its header's hash, here an identity that *)
(* is 0 for the genesis block, and the hash its header names as previous.   *)
(* A hash is a pair of halves, so that a hash written by two threads, or    *)
(* read while it is written, is a value no block has.  The all-zero hash    *)
(* stands for the genesis block, whose own hash the program never computes. *)
EXTENDS Naturals

HashValues == Nat \X Nat
BlockSet   == [id : Nat, prev : HashValues]
Hash(b)    == <<b.id, b.id>>
Genesis    == [id |-> 0, prev |-> <<0, 0>>]
=============================================================================
