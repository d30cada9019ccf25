---------------------------- MODULE UniverseStore ----------------------------
(***************************************************************************)
(* What becomes of one universe's prestige (packages/server/src: storage   *)
(* and the parts of host that use it).  A hello announces a prestige and   *)
(* asks the store for the recorded one; a challenge copies what the peer   *)
(* has at that moment into the match; the end of the match may award more, *)
(* and saves the copy.  Loads and saves are asynchronous: their steps on   *)
(* the file system interleave with the host's handlers and with each       *)
(* other, and the process may die between any two of them.                 *)
(*                                                                         *)
(* Universes share no record, no file and no save, so one of them is       *)
(* followed, and its opponents are part of the environment.  A record is   *)
(* its prestige; its other fields share its fate.  Files are inodes: a     *)
(* save that opens the temporary name finds the one that is there, and     *)
(* renaming gives a file a name without touching its content.              *)
(***************************************************************************)
EXTENDS Naturals

CONSTANTS
  NoRecord,       \* no prestige: nobody is here, or nothing is stored
  Torn,           \* the content of a file that is not a whole record
  MaxPrestige,    \* bound: the highest prestige there is
  MaxMatches,     \* bound: challenges that name this universe
  MaxCrashes      \* bound: times the process dies

ASSUME StoreAssumption ==
  /\ NoRecord # Torn /\ NoRecord \notin Nat /\ Torn \notin Nat
  /\ MaxPrestige \in Nat /\ MaxMatches \in Nat /\ MaxCrashes \in Nat

Prestige == 0 .. MaxPrestige
MatchIds == 1 .. MaxMatches
NoMatch == 0
NoFile == 0     \* a file is known by the match whose save created it

VARIABLES
  crashes,        \* times the process has died
  \* the host
  ref,            \* peer.universe.prestige, NoRecord while nobody plays it
  seat,           \* the match that peer.matchId names
  kept,           \* the prestige in the grace entry, NoRecord without one
  asked,          \* a load was asked for and has not read the file yet
  fetched,        \* what a load has read and not delivered
  status,         \* match -> unused, challenging, challenged, live or over
  stake,          \* match -> the prestige when it was agreed on
  \* the file system
  saves,          \* [match, step, file]: saves under way
  tmp, target,    \* the file under that name
  content,        \* file -> record
  \* history
  committed,      \* the match whose save succeeded last
  overlapped,     \* two saves were once under way at the same time
  last,           \* the match that ended last
  awarded,        \* what the peer was last awarded
  raced           \* something was awarded while a load was under way

host == <<ref, seat, kept, asked, fetched, status, stake>>
disk == <<tmp, target, content>>
history == <<committed, overlapped, last, awarded, raced>>
vars == <<crashes, host, saves, disk, history>>

Here == ref # NoRecord
Seated == seat # NoMatch /\ status[seat] = "live"
Loading == asked \/ fetched # NoRecord
IsNext(m) == status[m] = "unused" /\ \A x \in MatchIds : x < m => status[x] # "unused"

-----------------------------------------------------------------------------
\* onHello.  A grace entry brings the universe back as it was, into its match;
\* otherwise the announced prestige stands until the store answers, and the
\* peer is in no match, whichever is still running.
Hello(announced) ==
  /\ ~Here
  /\ ref' = IF kept # NoRecord THEN kept ELSE announced
  /\ seat' = IF kept # NoRecord THEN seat ELSE NoMatch
  /\ asked' = (kept = NoRecord)
  /\ kept' = NoRecord
  /\ UNCHANGED <<crashes, fetched, status, stake, saves, disk, history>>

\* Mutant: the answer to a load is taken by whoever plays the universe then.
LoadOutlivesConnection == UNCHANGED <<asked, fetched>>

\* resolveUniverse's callback finds the connection gone.
LoadIsDropped == asked' = FALSE /\ fetched' = NoRecord

\* disconnect.  A universe in a running match is kept for the grace window.
Disconnect ==
  /\ Here
  /\ ref' = NoRecord
  /\ kept' = IF Seated THEN ref ELSE kept
  /\ seat' = IF Seated THEN seat ELSE NoMatch
  /\ LoadIsDropped
  /\ awarded' = NoRecord
  /\ UNCHANGED <<crashes, status, stake, saves, disk, committed, overlapped, last, raced>>

\* loadUniverse.  A missing or unreadable file is no record.
ReadFile ==
  /\ asked /\ asked' = FALSE
  /\ fetched' = IF target = NoFile \/ content[target] = Torn THEN NoRecord
                ELSE content[target]
  /\ UNCHANGED <<crashes, ref, seat, kept, status, stake, saves, disk, history>>

\* resolveUniverse: the record replaces whatever the peer has by then.
Resolve ==
  /\ fetched # NoRecord
  /\ ref' = fetched
  /\ fetched' = NoRecord
  /\ UNCHANGED <<crashes, seat, kept, asked, status, stake, saves, disk, history>>

\* onChallenge copies what the peer has now, whichever side it is on.
Challenge(m) ==
  /\ Here /\ IsNext(m)
  /\ \E side \in {"challenging", "challenged"} : status' = [status EXCEPT ![m] = side]
  /\ stake' = [stake EXCEPT ![m] = ref]
  /\ UNCHANGED <<crashes, ref, seat, kept, asked, fetched, saves, disk, history>>

\* onAccept and start.  The challenged peer is here to accept; a challenger
\* may have gone, and the match begins without it.
Accept(m) ==
  /\ \/ status[m] = "challenged" /\ Here
     \/ status[m] = "challenging"
  /\ status' = [status EXCEPT ![m] = "live"]
  /\ seat' = IF Here THEN m ELSE seat
  /\ UNCHANGED <<crashes, ref, kept, asked, fetched, stake, saves, disk, history>>

\* Mutant: the award is announced, and the peer keeps what it had.
AwardedToNobody(award) == ref

\* endMatch credits a peer that is connected.
Awarded(award) == IF award # NoRecord /\ Here THEN award ELSE ref

\* endMatch.  The prestige computer may award something or nothing.  The
\* grace entry goes, and the universe is saved as it was when the match was
\* agreed on.
EndMatch(m, award) ==
  /\ status[m] = "live"
  /\ status' = [status EXCEPT ![m] = "over"]
  /\ ref' = Awarded(award)
  /\ kept' = NoRecord
  /\ saves' = saves \union {[match |-> m, step |-> "queued", file |-> NoFile]}
  /\ overlapped' = (overlapped \/ saves # {})
  /\ last' = m
  /\ awarded' = IF award # NoRecord /\ Here THEN award ELSE awarded
  /\ raced' = (raced \/ (award # NoRecord /\ Loading))
  /\ UNCHANGED <<crashes, seat, asked, fetched, stake, disk, committed>>

-----------------------------------------------------------------------------
Advanced(s, step, file) ==
  (saves \ {s}) \union {[match |-> s.match, step |-> step, file |-> file]}

\* Mutant: the record is written under its own name.
OpenInPlace(s) ==
  LET file == IF target = NoFile THEN s.match ELSE target IN
  /\ s \in saves /\ s.step = "queued"
  /\ target' = file
  /\ tmp' = file
  /\ content' = [content EXCEPT ![file] = Torn]
  /\ saves' = Advanced(s, "open", file)
  /\ UNCHANGED <<crashes, host, history>>

\* saveUniverse, writeFile's open: the temporary file is created, or emptied
\* if it is there.
Open(s) ==
  LET file == IF tmp = NoFile THEN s.match ELSE tmp IN
  /\ s \in saves /\ s.step = "queued"
  /\ tmp' = file
  /\ content' = [content EXCEPT ![file] = Torn]
  /\ saves' = Advanced(s, "open", file)
  /\ UNCHANGED <<crashes, host, target, history>>

\* writeFile's write.  Two saves that write to one file may leave neither's
\* record whole.
Write(s) ==
  LET shared == \E x \in saves \ {s} : x.file = s.file IN
  /\ s \in saves /\ s.step = "open"
  /\ \E left \in {stake[s.match]} \union IF shared THEN {Torn} ELSE {} :
       content' = [content EXCEPT ![s.file] = left]
  /\ saves' = Advanced(s, "written", s.file)
  /\ UNCHANGED <<crashes, host, tmp, target, history>>

\* Mutant: a save that has written is taken to be done.
RenameForgotten(s) ==
  /\ s \in saves /\ s.step = "written"
  /\ saves' = saves \ {s}
  /\ UNCHANGED <<crashes, host, disk, history>>

\* saveUniverse, rename: whatever has the temporary name takes the other.  If
\* nothing has, another save took it, and the failure is only logged.
Rename(s) ==
  /\ s \in saves /\ s.step = "written"
  /\ saves' = saves \ {s}
  /\ IF tmp = NoFile THEN UNCHANGED <<tmp, target, committed>>
     ELSE target' = tmp /\ tmp' = NoFile /\ committed' = s.match
  /\ UNCHANGED <<crashes, host, content, overlapped, last, awarded, raced>>

\* The process dies, and one that knows only the files takes its place.
Crash ==
  /\ crashes < MaxCrashes
  /\ crashes' = crashes + 1
  /\ ref' = NoRecord /\ kept' = NoRecord /\ awarded' = NoRecord
  /\ seat' = NoMatch /\ last' = NoMatch
  /\ asked' = FALSE /\ fetched' = NoRecord
  /\ status' = [m \in MatchIds |-> IF status[m] = "unused" THEN "unused" ELSE "over"]
  /\ saves' = {}
  /\ UNCHANGED <<stake, disk, committed, overlapped, raced>>

-----------------------------------------------------------------------------
Init ==
  /\ crashes = 0
  /\ ref = NoRecord /\ kept = NoRecord /\ fetched = NoRecord /\ awarded = NoRecord
  /\ seat = NoMatch /\ last = NoMatch /\ committed = NoMatch
  /\ asked = FALSE /\ overlapped = FALSE /\ raced = FALSE
  /\ status = [m \in MatchIds |-> "unused"]
  /\ stake = [m \in MatchIds |-> NoRecord]
  /\ saves = {}
  /\ tmp = NoFile /\ target = NoFile
  /\ content = [m \in MatchIds |-> Torn]

Saving == \E s \in saves : Open(s) \/ Write(s) \/ Rename(s)

Next ==
  \/ \E announced \in Prestige : Hello(announced)
  \/ Disconnect \/ ReadFile \/ Resolve
  \/ \E m \in MatchIds :
       \/ Challenge(m) \/ Accept(m)
       \/ \E award \in Prestige \union {NoRecord} : EndMatch(m, award)
  \/ Saving
  \/ Crash

\* The file system finishes what it was asked to do.
Fairness == WF_vars(Saving)

Spec == Init /\ [][Next]_vars /\ Fairness

-----------------------------------------------------------------------------
Stored == IF target = NoFile THEN NoRecord ELSE content[target]

TypeOK ==
  /\ crashes \in 0 .. MaxCrashes
  /\ {ref, kept, fetched, awarded} \subseteq Prestige \union {NoRecord}
  /\ {seat, last, committed} \subseteq MatchIds \union {NoMatch}
  /\ {asked, overlapped, raced} \subseteq BOOLEAN
  /\ Loading => Here
  /\ status \in [MatchIds -> {"unused", "challenging", "challenged", "live", "over"}]
  /\ stake \in [MatchIds -> Prestige \union {NoRecord}]
  /\ saves \subseteq [match : MatchIds, step : {"queued", "open", "written"},
                      file : MatchIds \union {NoFile}]
  /\ {tmp, target} \subseteq MatchIds \union {NoFile}
  /\ content \in [MatchIds -> Prestige \union {Torn}]

\* storage.ts 149-151.  However the process dies, the universe's file holds
\* the whole record that was saved last, or does not exist if none was;
\* unless two of its saves were ever under way at once, for which the shared
\* temporary name makes no such promise.
FileIsWhole ==
  ~overlapped =>
    Stored = IF committed = NoMatch THEN NoRecord ELSE stake[committed]

\* What a connected player was awarded is what its next challenge will carry,
\* provided no load was under way when the award was made.
AwardIsCarried == ~raced /\ awarded # NoRecord => ref = awarded

\* Every match that ends is recorded, unless the process dies first, another
\* match ends after it, or saves overlapped.
EndIsRecorded ==
  \A m \in MatchIds : last = m ~> committed = m \/ last # m \/ overlapped

\* storage.ts 28-29, "That prestige must survive the process restarting".
PrestigeSurvives ==
  saves = {} /\ ~overlapped /\ awarded # NoRecord => Stored = awarded
=============================================================================
