----------------------------- MODULE MCWebView -----------------------------
(***************************************************************************)
(* Constants for checking WebView with TLC.                                *)
(***************************************************************************)
EXTENDS WebView, TLC

CONSTANTS h1, r1, d1, f1, p1, q1, q2

None        == {}
OneHandler  == {h1}
OneRun      == {r1}
OneDeletion == {d1}
OneForeign  == {f1}

Everyone    == {Writers}
Couples     == {{h1, d1}, {r1, f1}}

OnePage     == {p1}
OneRequest  == {q1}
TwoRequests == {q1, q2}

(* Nothing tells two loads apart before they begin. *)
Symmetry    == Permutations(TwoRequests)

(* No step and none of the properties of WebView_pages reads the other two *)
(* variables, ends and shown.                                              *)
View == <<file, cache, mu, lock, writer, stream, req, left, heard, served>>
=============================================================================
