------------------------------ MODULE MCFinal ------------------------------
(* Finalization on a small instance: separate commits; commits that touch  *)
(* the same file; one that undoes a change; one of session artifacts only. *)
EXTENDS Finalization

Edit(files) == [files |-> files, undo |-> FALSE]
MCHistories == {
  <<Edit({"a"}), Edit({"b"})>>,
  <<Edit({"a"}), Edit({"a", "b"})>>,
  <<Edit({"a"}), [files |-> {"a"}, undo |-> TRUE]>>,
  <<Edit({}), Edit({"a"})>> }
=============================================================================
