----------------------------- MODULE MCLifecycle -----------------------------
EXTENDS Lifecycle

\* No step and no property depends on which names are in a block, nor, once two
\* rewrites have overlapped or a read has failed, on what is in which file.
Seen(text) ==
  IF raced THEN <<text = NoFile>>
  ELSE <<text = NoFile, text = Torn, IF text = NoFile THEN 0 ELSE text.theirs>>
SyncView ==
  [t \in Thread |->
     IF raced THEN sync[t].pc ELSE <<sync[t].pc, sync[t].fd, Seen(sync[t].text)>>]
View ==
  <<Seen(hosts), Seen(tmp), SyncView, edits, raced, uiVars, meshVars, confVars, history>>
=============================================================================
