---------------------------- MODULE UnitOfWork ----------------------------
(***************************************************************************)
(* What a SQLAlchemy session of db/session.py does with a row it loaded by *)
(* a plain SELECT and changed in memory.  The session is opened with       *)
(* expire_on_commit=False, no mapped class has a version counter, and the  *)
(* database runs READ COMMITTED: flush() emits UPDATE ... WHERE id = :id   *)
(* and sets exactly the columns whose value differs from the loaded one.   *)
(* Another session's change of such a column is overwritten; its change of *)
(* any other column survives.                                              *)
(***************************************************************************)

\* The value of one column after the flush: `loaded` is what this session
\* read, `staged` what its handler assigned, `current` what is committed now.
FlushColumn(loaded, staged, current) ==
  IF staged = loaded THEN current ELSE staged

===========================================================================
