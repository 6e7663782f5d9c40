--------------------------------- MODULE MCExam ---------------------------------
(* A small instance of the page on which a test is taken, on its own. *)
EXTENDS ExamPage

=============================================================================
