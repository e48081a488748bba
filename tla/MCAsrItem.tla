----------------------------- MODULE MCAsrItem ------------------------------
(***************************************************************************)
(* Model-checking instances of AsrItem: a page of unknown length and a    *)
(* page of six ticks that is cut into segments of at most four.            *)
(***************************************************************************)
EXTENDS AsrItem

TwoPages == <<0, 6>>
OnePage == <<8>>

\* Speech without a pause, and speech with a pause in the middle.
BothMaps == {{<<0, 6>>}, {<<0, 3>>, <<5, 6>>}}

\* Eight ticks without a pause: three segments by voice activity, two by period.
Talk == {{<<0, 8>>}}
=============================================================================
