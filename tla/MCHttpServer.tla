---------------------------- MODULE MCHttpServer ----------------------------
(***************************************************************************)
(* Values for the constants of HttpServer.  With chunks of 2 bytes there   *)
(* are files that end in the middle of a chunk, at the end of one, and an  *)
(* empty one.                                                              *)
(***************************************************************************)
EXTENDS HttpServer

CONSTANTS c1, c2, c3

Picture == "C_Morgenstern.jpg"
NoDot == "DEADJOE"
Missing == "nowhere.html"
Empty == "empty.html"
Pages == {Index, NotFound, Favicon, Result, Picture, NoDot, Missing, Empty}
Sizes == [p \in {Index, NotFound, Picture, NoDot, Empty} |->
            IF p = Index THEN 3 ELSE IF p = Empty THEN 0
            ELSE IF p = Picture THEN 2 ELSE 1]
Kinds == [p \in Pages |-> IF p = Picture THEN "other"
                          ELSE IF p = NoDot THEN "bare" ELSE "html"]

Get(p) == [method |-> "GET", page |-> p]
Form == [method |-> "POST", page |-> Index]
Probe == [method |-> "HEAD", page |-> Index]

WantsOf == [c \in {c1, c2, c3} |->
  IF c = c1 THEN {Get(Index), Form}
  ELSE IF c = c2 THEN {Get(Missing), Get(Result), Form}
  ELSE {Get(Picture), Get(Favicon), Get(NoDot), Probe}]
=============================================================================
