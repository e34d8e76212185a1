------------------------------- MODULE FileStore -------------------------------
(***************************************************************************)
(* The files of a house on disk: content and metadata are two files, that  *)
(* are written and deleted one after the other; a file is there if both    *)
(* are.  Nothing but the order of the steps keeps them together.           *)
(* (infrastructure/files/local.py)                                         *)
(***************************************************************************)
VARIABLES content,   \* keys of which the content is on disk
          metadata,  \* keys of which the metadata is on disk
          expired    \* keys that were stored more than thirty days ago

fileVars == <<content, metadata, expired>>

\* A key is drawn at random by every put.
FilesTypeOK(Key) == content \subseteq Key /\ metadata \subseteq Key /\ expired \subseteq Key

FilesInit == content = {} /\ metadata = {} /\ expired = {}

\* _get_sync: metadata without content is an integrity error.
Readable(f) == f \in metadata /\ f \in content

\* _put_sync, each part by an atomic rename.
WriteContent(f) == content' = content \cup {f} /\ UNCHANGED <<metadata, expired>>
WriteMetadata(f) == metadata' = metadata \cup {f} /\ UNCHANGED <<content, expired>>

\* Mutant: the content stays when the metadata cannot be written.
LeaveContent(f) == UNCHANGED fileVars

TakeBack(f) == content' = content \ {f} /\ UNCHANGED <<metadata, expired>>

\* Mutant: the content goes first.
ContentFirst == <<"content", "metadata">>

\* _delete_sync, in two steps.
DeleteOrder == <<"metadata", "content">>

Delete(f, n) ==
  /\ IF DeleteOrder[n] = "metadata"
     THEN metadata' = metadata \ {f} /\ UNCHANGED content
     ELSE content' = content \ {f} /\ UNCHANGED metadata
  /\ UNCHANGED expired
=============================================================================
