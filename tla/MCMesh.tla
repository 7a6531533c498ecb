------------------------------- MODULE MCMesh -------------------------------
(***************************************************************************)
(* A room and two people for TLC, one of whom is at home.                  *)
(***************************************************************************)
EXTENDS Mesh
CONSTANTS a, b, hello

\* One reader, who posts too.
Writer == [members |-> <<a>>, authors |-> <<NoAuthor>>, drafts |-> {<<a, hello>>}]
\* Two readers, each of whom is owed the other's post.
Pair == [members |-> <<b, a>>, authors |-> <<b, a, b>>, drafts |-> {}]
\* Two readers who are owed the same post.
Same == [members |-> <<b, a>>, authors |-> <<NoAuthor>>, drafts |-> {}]

Apart == {Writer, Pair}
Together == {Same}
=============================================================================
