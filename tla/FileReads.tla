------------------------------ MODULE FileReads ------------------------------
(* Reading a file that others may write meanwhile (_safe_io.py): an entry of *)
(* the call cache, which is only ever replaced; a file attached to a         *)
(* request, read once for the key and once for the message (calling.py); and *)
(* a declared file of a dag, read once for both (dag.py).                    *)
(*                                                                           *)
(* One path. A file has two halves, so that a reader can meet a writer in    *)
(* the middle, and stamps that the system moves: mtime when it is written,   *)
(* ctime also when the path is taken from it.                                *)
EXTENDS Naturals, Sequences, FiniteSets

CONSTANTS Version,      \* what a writer writes
          Nothing,
          MaxReads,  \* _ATOMIC_REPLACE_MAX_ATTEMPTS
          MaxChanges    \* bound: changes to the path

VARIABLES path,    \* the file the path names, or Nothing
          file,    \* the files there have been: halves, mtime, ctime
          kind,    \* "cache", "request" or "declared": the reader
          rd,      \* how far it is
          past,    \* what the file it has open has held since
          edited,  \* a file has been written in place
          silent,  \* and its stamps have not moved
          removed, pathChanges

readsVars == <<path, file, kind, rd, past, edited, silent, removed, pathChanges>>

Identity(f) == <<f, file[f].mtime, file[f].ctime>>

Idle == [at |-> "start", attempts |-> 0, bound |-> Nothing, open |-> Nothing, was |-> Nothing,
         got |-> <<>>, key |-> Nothing, result |-> Nothing]

ReaderAt(from) ==
  rd.at = from /\ UNCHANGED <<path, file, kind, edited, silent, removed, pathChanges>>
ReaderIs(s) == rd' = s /\ UNCHANGED past
ReaderTo(to) == ReaderIs([rd EXCEPT !.at = to])
ReaderEnds(result) == ReaderIs([rd EXCEPT !.at = "done", !.result = result])

-----------------------------------------------------------------------------
(* Writers. *)

Changed(f, new) ==
  /\ pathChanges < MaxChanges /\ pathChanges' = pathChanges + 1
  /\ past' = IF f # Nothing /\ rd.open = f THEN past \cup {new} ELSE past
  /\ UNCHANGED <<kind, rd>>

Unlinked == IF path = Nothing THEN file ELSE [file EXCEPT ![path].ctime = @ + 1]

\* secure_atomic_write_text
Replace ==
  /\ \E v \in Version : file' = Append(Unlinked, [halves |-> <<v, v>>, mtime |-> 0, ctime |-> 0])
  /\ path' = Len(file) + 1
  /\ Changed(Nothing, Nothing)
  /\ UNCHANGED <<edited, silent, removed>>

Unlink ==
  /\ path # Nothing /\ path' = Nothing /\ file' = Unlinked /\ removed' = TRUE
  /\ Changed(Nothing, Nothing)
  /\ UNCHANGED <<edited, silent>>

\* someone writes one half in place
Edit ==
  /\ path # Nothing
  /\ \E h \in {1, 2}, v \in Version, moves \in BOOLEAN :
       LET new == [file[path].halves EXCEPT ![h] = v]
           by == IF moves THEN 1 ELSE 0
       IN  /\ new # file[path].halves
           /\ file' = [file EXCEPT ![path] = [halves |-> new, mtime |-> @.mtime + by,
                                              ctime |-> @.ctime + by]]
           /\ silent' = (silent \/ ~moves)
           /\ Changed(path, new)
  /\ edited' = TRUE
  /\ UNCHANGED <<path, removed>>

-----------------------------------------------------------------------------
(* All readers: open, verify, read, verify.                                  *)

\* lstat: what the path names, before it is opened
Probe ==
  /\ ReaderAt("start")
  /\ IF path = Nothing THEN ReaderEnds("missing")
     ELSE ReaderIs([rd EXCEPT !.at = "open", !.bound = Identity(path)])

\* _open_regular_file_at
Open ==
  /\ ReaderAt("open")
  /\ IF path = Nothing THEN ReaderEnds("missing")
     ELSE IF Identity(path) # rd.bound THEN ReaderTo("displaced")
     ELSE /\ rd' = [rd EXCEPT !.at = "verify", !.open = path, !.got = <<>>]
          /\ past' = {file[path].halves}

\* Mutant: an entry replaced before it was opened is an error.
NeverAgain == FALSE

\* another file has the name now: the cache tries again
Again ==
  kind = "cache" /\ path \notin {Nothing, rd.bound[1]} /\ rd.attempts + 1 < MaxReads

Displaced ==
  /\ ReaderAt("displaced")
  /\ IF Again
     THEN ReaderIs([rd EXCEPT !.at = "start", !.attempts = @ + 1])
     ELSE ReaderEnds(IF kind = "cache" /\ path = Nothing THEN "missing" ELSE "changed")

\* verify_regular_descriptor, before
Verify ==
  /\ ReaderAt("verify")
  /\ IF Identity(rd.open) = rd.bound
     THEN ReaderIs([rd EXCEPT !.at = "read", !.was = rd.bound])
     ELSE ReaderTo("excuse")

OnlyUnlinked(before) ==
  path # rd.open /\ file[rd.open].mtime = before[2]

\* an unlinked file is still the whole of what it was
Excuse ==
  /\ ReaderAt("excuse")
  /\ IF kind = "cache" /\ path = Nothing THEN ReaderEnds("missing")
     ELSE IF kind = "cache" /\ OnlyUnlinked(rd.bound)
     THEN ReaderIs([rd EXCEPT !.at = "read", !.was = Identity(rd.open)])
     ELSE ReaderEnds("changed")

Read ==
  /\ ReaderAt("read")
  /\ LET n == Len(rd.got) + 1 IN
       ReaderIs([rd EXCEPT !.got = Append(@, file[rd.open].halves[n]),
                            !.at = IF n = 2 THEN "check" ELSE "read"])

\* Mutant: what has been read is taken as it is.
CheckNothing == TRUE

Unchanged == Identity(rd.open) = rd.was

\* digest_open_file, after
Check ==
  /\ ReaderAt("check") /\ kind # "cache" /\ ~Unchanged
  /\ ReaderEnds("changed")

\* the digest of the first reading is part of the key
MakeKey ==
  /\ ReaderAt("check") /\ kind # "cache" /\ Unchanged /\ rd.key = Nothing
  /\ ReaderIs([rd EXCEPT !.key = rd.got, !.at = IF kind = "declared" THEN "expand" ELSE "keyed"])

\* _read_preflighted_file: the second reading is to be sent
ReadAgain ==
  /\ ReaderAt("check") /\ kind # "cache" /\ Unchanged /\ rd.key # Nothing
  /\ ReaderTo("expand")

-----------------------------------------------------------------------------
(* The entry of the call cache: _read_regular_bytes_allowing_atomic_replace. *)

Final ==
  /\ ReaderAt("check") /\ kind = "cache"
  /\ ReaderIs([rd EXCEPT !.at = "named", !.was = <<@, Identity(rd.open)>>])

Named ==
  /\ ReaderAt("named")
  /\ LET initial == rd.was[1]
         final == rd.was[2]
     IN  ReaderEnds(IF path = Nothing THEN "missing"
                     ELSE IF final # initial /\ ~(path # rd.open /\ final[2] = initial[2])
                          THEN "changed"
                     ELSE IF path = rd.open /\ Identity(path) # final
                          THEN "changed" ELSE "ok")

-----------------------------------------------------------------------------
(* The file attached to a request. *)

\* the key is made; the call has waited for its turn and is to be sent
Send ==
  /\ ReaderAt("keyed")
  /\ ReaderIs([rd EXCEPT !.at = "open"])

SameDigest == rd.got = rd.key

\* _expand_file_reference
Expand ==
  /\ ReaderAt("expand")
  /\ ReaderEnds(IF SameDigest THEN "ok" ELSE "changed")

ReadsInit ==
  /\ \E v \in Version : file = <<[halves |-> <<v, v>>, mtime |-> 0, ctime |-> 0]>>
  /\ path = 1 /\ pathChanges = 0 /\ edited = FALSE /\ silent = FALSE /\ removed = FALSE
  /\ kind \in {"cache", "request", "declared"} /\ rd = Idle /\ past = {}

ReadsNext ==
  \/ Replace \/ Unlink \/ Edit
  \/ Probe \/ Open \/ Displaced \/ Verify \/ Excuse \/ Read
  \/ Check \/ MakeKey \/ ReadAgain
  \/ Final \/ Named \/ Send \/ Expand

ReadsSpec == ReadsInit /\ [][ReadsNext]_readsVars

-----------------------------------------------------------------------------
Taken == rd.at = "done" /\ rd.result = "ok"

\* What a reader takes is what the file held at one instant while it was open,
\* never half of one version and half of the next, as long as the stamps tell.
WholeVersion == Taken /\ ~silent => rd.got \in past

\* Replacing an entry does not make it unreadable: a reader of the cache is
\* refused only for a write in place, or after it has lost every attempt.
ReplacedReadable ==
  kind = "cache" /\ rd.at = "done" /\ ~edited =>
    rd.result = "ok" \/ removed \/ rd.attempts + 1 = MaxReads

=============================================================================
