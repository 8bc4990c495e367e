----------------------------- MODULE AtomicFile -----------------------------
(***************************************************************************)
(* internal/atomicfile: a file replaced by rename, with at most one backup *)
(* "<name>.bak" beside it.  None stands for a file that does not exist.    *)
(***************************************************************************)
EXTENDS Versions

\* The copy of an existing file to its ".bak" that precedes a replacement.
Backup(d) == IF d.file = None THEN d.bak ELSE d.file

\* WriteAtomic of content x: identical bytes (same) are left alone, any other
\* file is backed up and replaced.
WriteAtomic(d, x, same) ==
  IF same THEN d ELSE [file |-> x, bak |-> Backup(d)]

\* WriteAtomic when reading the existing file fails: the file counts as absent
\* and is replaced, whatever its bytes; an older backup stays.
WriteUnread(d, x) == [d EXCEPT !.file = x]

\* What WriteAtomic can leave behind when it fails or is cut short: nothing
\* was touched, or only the backup had been refreshed.  (A backup copied only
\* in part is CertStore's PartialBackup; a single file writes its backup anew
\* in the tick that reads it back.)
WriteAtomicFailed(d, same) ==
  IF same THEN {} ELSE {d, [d EXCEPT !.bak = Backup(d)]}

\* Restore renames the backup, if there is one, over the file.
Restore(d) ==
  IF d.bak = None THEN d ELSE [file |-> d.bak, bak |-> None]
=============================================================================
