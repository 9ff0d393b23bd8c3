-------------------------- MODULE LanguageRegistry --------------------------
(***************************************************************************)
(* The registry of languages (internal/lang): one table, compiled into     *)
(* both binaries.  The API accepts what Get knows, the worker warms the    *)
(* images that Images lists.                                               *)
(***************************************************************************)
EXTENDS Sequences, SequencesExt

\* id |-> image and whether there is a compile step.
Registry ==
    [ python |-> [image |-> "python:3.12-alpine", compiled |-> FALSE],
      node   |-> [image |-> "node:22-alpine", compiled |-> FALSE],
      c      |-> [image |-> "gcc:14", compiled |-> TRUE],
      cpp    |-> [image |-> "gcc:14", compiled |-> TRUE],
      java   |-> [image |-> "eclipse-temurin:21-jdk-alpine", compiled |-> TRUE] ]

Known(id) == id \in DOMAIN Registry

\* All, ordered by id.
All == <<"c", "cpp", "java", "node", "python">>

\* The distinct images, in the order of All: of the first n languages, n by n.
Images ==
    LET out[n \in 0 .. Len(All)] ==
            IF n = 0 THEN <<>>
            ELSE LET image == Registry[All[n]].image
                 IN IF Contains(out[n - 1], image) THEN out[n - 1]
                                                  ELSE Append(out[n - 1], image)
    IN out[Len(All)]
=============================================================================
