--------------------------- MODULE MCHikeLoader ---------------------------
(***************************************************************************)
(* Four packages with five files.  The entry package has two files and     *)
(* imports two packages; both import a fourth, and one of them the entry   *)
(* package and the other, so that packages import each other in circles.   *)
(***************************************************************************)
EXTENDS LoaderEquivalence, TLC

CONSTANTS e, p, q, n, eMain, eMore, pFile, qFile, nFile

FourDirs == {e, p, q, n}

TheFiles == (e :> <<eMain, eMore>>) @@ (p :> <<pFile>>) @@ (q :> <<qFile>>) @@ (n :> <<nFile>>)

TheImports ==
  (eMain :> <<p, q>>) @@ (eMore :> <<q>>) @@ (pFile :> <<n>>) @@ (qFile :> <<n, e>>)
    @@ (nFile :> <<p>>)

Native == {p, n}
=============================================================================
