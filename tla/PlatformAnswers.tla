--------------------------- MODULE PlatformAnswers ---------------------------
(***************************************************************************)
(* What TikTok may have done with an approved write when its answer is in, *)
(* and may still do: the answers the Change Service reckons with           *)
(* (ChangeService) and those the backend comes back with                   *)
(* (PlatformOperation).  An answer is paired with its effect.  An inflight *)
(* request may still be carried out; of a trailing bundle a part was, and  *)
(* the rest may be.                                                        *)
(***************************************************************************)

\* A request to TikTok whose answer is lost may be carried out, now, later or
\* never.
RequestAnswers ==
    {<<"refused", "none">>, <<"acknowledged", "full">>}
        \union ({"unknown"} \X {"none", "inflight", "full"})

\* A bundle is several requests and stops at the first it is not sure of.
BundleAnswers ==
    {<<"refused", "none">>, <<"acknowledged", "full">>}
        \union ({"unknown"} \X {"none", "inflight", "partial"})
        \union ({"partial"} \X {"partial", "trailing", "full"})

\* What becomes of an effect when the request under way is carried out after all.
Arrived(effect, bundle) ==
    IF effect = "inflight" /\ bundle THEN "partial" ELSE "full"
=============================================================================
