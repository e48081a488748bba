---------------------------- MODULE MCFetchTask -----------------------------
(***************************************************************************)
(* Model-checking instances of FetchTask: two fan-outs over the videos,    *)
(* one of which needs a credential.                                        *)
(***************************************************************************)
EXTENDS FetchTask

Sources == [e \in ItemLevel |-> "videos"]

AllArguments == {{}, {"videos"}, {"video_detail"}, {"video_detail", "video_subtitle"}}
DetailArguments == {{"videos", "video_detail"}}
=============================================================================
