----------------------------- MODULE MCLogUpload -----------------------------
(* A ring of two lines, three lines written: two uploads can be under way with *)
(* lines of their own and overflow the ring when both come back.              *)
EXTENDS LogUpload
=============================================================================
