----------------------------- MODULE MCDataPath -----------------------------
(***************************************************************************)
(* Model-checking instances of DataPath over the field of 17 elements,     *)
(* with blobs of four elements and four chunk values.                      *)
(***************************************************************************)
EXTENDS DataPath

\* One chunk, two, and four; one chunk and padding that is not zero; and a high byte that
\* is not zero over the data of the first.
MCBlobs == {<<1, 0, 0, 0>>, <<2, 3, 0, 0>>, <<3, 1, 2, 1>>, <<0, 0, 2, 0>>, <<5, 0, 0, 0>>}

\* Two beacon endpoints and an archive: nothing but the last is reliable.
MCSources ==
  <<[kind |-> "beacon", honest |-> <<FALSE, FALSE>>], [kind |-> "archive", honest |-> <<TRUE>>]>>

\* All digests of two digits.
MCDigests == [1..2 -> 0..3]

=============================================================================
