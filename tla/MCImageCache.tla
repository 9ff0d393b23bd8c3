---------------------------- MODULE MCImageCache ----------------------------
(***************************************************************************)
(* Small instances of ImageCache for TLC.                                  *)
(***************************************************************************)
EXTENDS ImageCache

\* Every fault, an image removed behind the worker's back included.
AllImageFaults == ImageFaults

\* The daemon reports a failed pull in the stream of progress messages.
InStreamFaults == {"streamErr"}
=============================================================================
