------------------------------ MODULE Recorder -------------------------------
(***************************************************************************)
(* The directory a probe records into (providers/transport/record.py): a   *)
(* file per question and kind of body, and an index that says which        *)
(* question, and which capture of which day, a file answers.  The file is  *)
(* written first, the index after it, and the process may end in between.  *)
(***************************************************************************)
EXTENDS LiveSource

CONSTANT Captures

VARIABLES
  capture,    \* Recorder.capture of this process, or None: nothing is recorded
  files,      \* which capture each file's bytes were obtained under, or None
  index,      \* entries [file, capture]
  captures,   \* captures the index declares
  torn        \* files whose bytes the index was not told about; a history

recordVars == <<capture, files, index, captures, torn>>

\* _filename(): a digest of the question, and a suffix for the kind of body.
File == Requests \X BODIES
Filename(request, body) == <<request, body>>

RecorderInit ==
  /\ files = [file \in File |-> None]
  /\ index = {}
  /\ captures = {}
  /\ torn = {}

\* path.write_text(body)
RecordFile ==
  /\ At("writing")
  /\ LET file == Filename(fetching.request, fetching.body)
     IN  /\ files' = [files EXCEPT ![file] = capture]
         /\ torn' = torn \union {file}
  /\ fetching' = [fetching EXCEPT !.phase = "indexing"]
  /\ UNCHANGED <<bucketVars, attempts, got, dials, refused, answered, drifts>>
  /\ UNCHANGED <<capture, index, captures>>

\* Appended, with what was there before of the same file left in.
RecordIndex_Append ==
  /\ At("indexing")
  /\ LET file == Filename(fetching.request, fetching.body)
     IN  /\ index' = index \union {[file |-> file, capture |-> capture]}
         /\ torn' = torn \ {file}
  /\ captures' = captures \union {capture}
  /\ fetching' = None
  /\ Return(fetching.body)
  /\ UNCHANGED <<bucketVars, attempts, dials, refused, answered, drifts>>
  /\ UNCHANGED <<capture, files>>

\* The entry of this file is replaced, whichever capture it belonged to.
RecordIndex ==
  /\ At("indexing")
  /\ LET file == Filename(fetching.request, fetching.body)
     IN  /\ index' = {entry \in index : entry.file # file}
                       \union {[file |-> file, capture |-> capture]}
         /\ torn' = torn \ {file}
  /\ captures' = captures \union {capture}
  /\ fetching' = None
  /\ Return(fetching.body)
  /\ UNCHANGED <<bucketVars, attempts, dials, refused, answered, drifts>>
  /\ UNCHANGED <<capture, files>>

\* A replay of a capture gives back bytes that were obtained under it.  A crash
\* between the two writes is the only exception, and recording the question once
\* more mends it.
IndexTellsTheTruth ==
  \A entry \in index : files[entry.file] = entry.capture \/ entry.file \in torn
==============================================================================
