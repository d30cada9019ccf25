------------------------ MODULE UniverseStore_proofs -------------------------
(***************************************************************************)
(* The universe's file survives the death of the process, for every number *)
(* of matches and crashes.  FileIsWhole is not inductive: it takes what is *)
(* under the temporary name and how far the one save under way has come.   *)
(* What a participant was awarded is carried into its next match, which    *)
(* takes that nobody loads a stake while an award of its own is unraced.   *)
(***************************************************************************)
EXTENDS UniverseStore, TLAPS

Saves == [match : MatchIds, step : {"queued", "open", "written"},
          file : MatchIds \union {NoFile}]

Typed ==
  /\ status \in [MatchIds -> {"unused", "challenging", "challenged", "live", "over"}]
  /\ stake = [m \in MatchIds |-> stake[m]]
  /\ saves \subseteq Saves
  /\ tmp \in MatchIds \union {NoFile} /\ target \in MatchIds \union {NoFile}
  /\ committed \in MatchIds \union {NoMatch}
  /\ content = [m \in MatchIds |-> content[m]]

\* Only a match that is over has been saved, so its stake no longer changes.
SavedIsOver ==
  /\ tmp # NoFile => status[tmp] = "over"
  /\ target # NoFile => status[target] = "over"
  /\ committed # NoMatch => status[committed] = "over"
  /\ \A s \in saves : status[s.match] = "over"

\* Where the only save under way has come to.
OneSave ==
  /\ \A s, x \in saves : s = x
  /\ tmp # NoFile => tmp # target
  /\ \A s \in saves :
       /\ s.step = "queued" => s.match # tmp /\ s.match # target
       /\ s.step # "queued" => s.file = tmp /\ tmp # NoFile
       /\ s.step = "written" => content[tmp] = stake[s.match]

StoreInv == Typed /\ SavedIsOver /\ (~overlapped => OneSave) /\ FileIsWhole

USE StoreAssumption DEF MatchIds, NoFile, NoMatch

\* Nothing was saved yet.
LEMMA InitStore == Init => StoreInv
  BY DEF Init, StoreInv, Typed, SavedIsOver, OneSave, FileIsWhole, Stored, Saves, Prestige

\* The part of the state the invariant is about.
Relevant == <<status, stake, saves, disk, committed, overlapped>>

\* A step of the host that saves nothing.
LEMMA UnrelatedStore == StoreInv /\ UNCHANGED Relevant => StoreInv'
  BY DEF StoreInv, Typed, SavedIsOver, OneSave, FileIsWhole, Stored, Relevant, disk

\* A match that is agreed on or begins is not over.
LEMMA AgreeStore ==
  ASSUME StoreInv, NEW m \in MatchIds, Challenge(m) \/ Accept(m)
  PROVE  StoreInv'
<1>1. /\ status[m] # "over"
      /\ status' \in [MatchIds -> {"unused", "challenging", "challenged", "live", "over"}]
      /\ \A x \in MatchIds : x # m => status'[x] = status[x] /\ stake'[x] = stake[x]
      /\ stake' = [x \in MatchIds |-> stake'[x]]
      /\ UNCHANGED <<saves, tmp, target, content, committed, overlapped>>
  <2>1. CASE Challenge(m)
    BY <2>1 DEF StoreInv, Typed, Challenge, IsNext, disk, history
  <2>2. CASE Accept(m)
    BY <2>2 DEF StoreInv, Typed, Accept, disk, history
  <2> QED BY <2>1, <2>2
<1>2. Typed'
  BY <1>1 DEF StoreInv, Typed
<1>3. SavedIsOver'
  BY <1>1 DEF StoreInv, Typed, SavedIsOver, Saves
<1>4. (~overlapped => OneSave)'
  BY <1>1 DEF StoreInv, Typed, SavedIsOver, OneSave, Saves
<1>5. FileIsWhole'
  BY <1>1 DEF StoreInv, Typed, SavedIsOver, FileIsWhole, Stored
<1> QED BY <1>2, <1>3, <1>4, <1>5 DEF StoreInv

\* The end of a match starts a save, of a match that no file is named for.
LEMMA EndStore ==
  ASSUME StoreInv, NEW m \in MatchIds, NEW award, EndMatch(m, award)
  PROVE  StoreInv'
<1> DEFINE new == [match |-> m, step |-> "queued", file |-> NoFile]
<1>1. /\ status[m] = "live" /\ status' = [status EXCEPT ![m] = "over"]
      /\ saves' = saves \union {new}
      /\ overlapped' = (overlapped \/ saves # {})
      /\ UNCHANGED <<stake, tmp, target, content, committed>>
  BY DEF EndMatch, disk
<1>2. new \in Saves /\ new.match = m /\ new.step = "queued"
  BY DEF Saves
<1>3. m # tmp /\ m # target
  BY <1>1 DEF StoreInv, SavedIsOver
<1> HIDE DEF new
<1>4. Typed'
  BY <1>1, <1>2 DEF StoreInv, Typed
<1>5. SavedIsOver'
  BY <1>1, <1>2 DEF StoreInv, Typed, SavedIsOver, Saves
<1>6. (~overlapped => OneSave)'
  BY <1>1, <1>2, <1>3 DEF StoreInv, Typed, OneSave
<1>7. FileIsWhole'
  BY <1>1 DEF StoreInv, FileIsWhole, Stored
<1> QED BY <1>4, <1>5, <1>6, <1>7 DEF StoreInv

\* Opening empties the temporary file, which is nobody's record.
LEMMA OpenStore ==
  ASSUME StoreInv, NEW s \in saves, Open(s)
  PROVE  StoreInv'
<1> DEFINE file == IF tmp = NoFile THEN s.match ELSE tmp
           next == [match |-> s.match, step |-> "open", file |-> file]
<1>1. /\ s.step = "queued" /\ tmp' = file
      /\ content' = [content EXCEPT ![file] = Torn]
      /\ saves' = (saves \ {s}) \union {next}
      /\ UNCHANGED <<status, stake, target, committed, overlapped>>
  BY DEF Open, Advanced, host, history
<1>2. /\ s \in Saves /\ file \in MatchIds /\ file # NoFile
      /\ next \in Saves /\ next.match = s.match /\ next.step = "open" /\ next.file = file
  BY DEF StoreInv, Typed, Saves
<1>3. status[file] = "over" /\ status[s.match] = "over"
  BY DEF StoreInv, SavedIsOver
<1>4. ~overlapped => file # target
  BY <1>1, <1>2 DEF StoreInv, OneSave
<1> HIDE DEF file, next
<1>5. Typed'
  BY <1>1, <1>2 DEF StoreInv, Typed
<1>6. SavedIsOver'
  BY <1>1, <1>2, <1>3 DEF StoreInv, SavedIsOver
<1>7. (~overlapped => OneSave)'
  BY <1>1, <1>2, <1>4 DEF StoreInv, OneSave
<1>8. FileIsWhole'
  BY <1>1, <1>2, <1>4 DEF StoreInv, Typed, FileIsWhole, Stored
<1> QED BY <1>5, <1>6, <1>7, <1>8 DEF StoreInv

\* A save that has the temporary file to itself leaves its record in it.
LEMMA WriteStore ==
  ASSUME StoreInv, NEW s \in saves, Write(s)
  PROVE  StoreInv'
<1> DEFINE next == [match |-> s.match, step |-> "written", file |-> s.file]
<1>1. /\ s.step = "open"
      /\ saves' = (saves \ {s}) \union {next}
      /\ UNCHANGED <<status, stake, tmp, target, committed, overlapped>>
  BY DEF Write, Advanced, host, history
<1>2. /\ s \in Saves /\ next \in Saves /\ next.match = s.match
      /\ next.step = "written" /\ next.file = s.file
  BY DEF StoreInv, Typed, Saves
<1>3. PICK left \in {stake[s.match], Torn} : content' = [content EXCEPT ![s.file] = left]
  BY DEF Write
<1>4. ~overlapped => content' = [content EXCEPT ![s.file] = stake[s.match]]
  BY DEF Write, StoreInv, OneSave
<1>5. status[s.match] = "over"
  BY DEF StoreInv, SavedIsOver
<1> HIDE DEF next
<1>6. Typed'
  BY <1>1, <1>2, <1>3 DEF StoreInv, Typed
<1>7. SavedIsOver'
  BY <1>1, <1>2, <1>5 DEF StoreInv, SavedIsOver
<1>8. (~overlapped => OneSave)'
  <2> SUFFICES ASSUME ~overlapped PROVE OneSave'
    BY <1>1
  <2>1. OneSave /\ saves' = {next}
    BY <1>1 DEF StoreInv, OneSave
  <2>2. s.file = tmp /\ tmp \in MatchIds /\ tmp # target
    BY <1>1, <2>1 DEF StoreInv, Typed, OneSave
  <2>3. content'[tmp] = stake[s.match]
    BY <1>4, <2>2 DEF StoreInv, Typed
  <2> QED
    BY <1>1, <1>2, <2>1, <2>2, <2>3 DEF OneSave
<1>9. FileIsWhole'
  BY <1>1, <1>4 DEF StoreInv, Typed, OneSave, FileIsWhole, Stored
<1> QED BY <1>6, <1>7, <1>8, <1>9 DEF StoreInv

\* Renaming gives the written record its name, all at once.
LEMMA RenameStore ==
  ASSUME StoreInv, NEW s \in saves, Rename(s)
  PROVE  StoreInv'
<1>1. /\ s.step = "written" /\ saves' = saves \ {s}
      /\ UNCHANGED <<status, stake, content, overlapped>>
      /\ IF tmp = NoFile THEN UNCHANGED <<tmp, target, committed>>
         ELSE target' = tmp /\ tmp' = NoFile /\ committed' = s.match
  BY DEF Rename, host
<1>2. s \in Saves
  BY DEF StoreInv, Typed
<1>3. Typed'
  BY <1>1, <1>2 DEF StoreInv, Typed, Saves
<1>4. SavedIsOver'
  BY <1>1, <1>2 DEF StoreInv, SavedIsOver
<1>5. (~overlapped => OneSave)'
  BY <1>1 DEF StoreInv, OneSave
<1>6. FileIsWhole'
  BY <1>1, <1>2 DEF StoreInv, OneSave, FileIsWhole, Stored, Saves
<1> QED BY <1>3, <1>4, <1>5, <1>6 DEF StoreInv

\* A crash forgets the saves and leaves the files.
LEMMA CrashStore == StoreInv /\ Crash => StoreInv'
<1> SUFFICES ASSUME StoreInv, Crash PROVE StoreInv'
  OBVIOUS
<1>1. /\ saves' = {} /\ UNCHANGED <<stake, tmp, target, content, committed, overlapped>>
      /\ status' = [m \in MatchIds |-> IF status[m] = "unused" THEN "unused" ELSE "over"]
  BY DEF Crash, disk
<1>2. Typed' /\ SavedIsOver'
  BY <1>1 DEF StoreInv, Typed, SavedIsOver
<1>3. (~overlapped => OneSave)' /\ FileIsWhole'
  BY <1>1 DEF StoreInv, OneSave, FileIsWhole, Stored
<1> QED BY <1>2, <1>3 DEF StoreInv

LEMMA NextStore == StoreInv /\ [Next]_vars => StoreInv'
<1> SUFFICES ASSUME StoreInv, [Next]_vars PROVE StoreInv'
  OBVIOUS
<1>1. ASSUME NEW announced \in Prestige, Hello(announced) PROVE StoreInv'
  BY <1>1, UnrelatedStore DEF Hello, Relevant, history
<1>2. CASE Disconnect
  BY <1>2, UnrelatedStore DEF Disconnect, Relevant
<1>3. CASE ReadFile
  BY <1>3, UnrelatedStore DEF ReadFile, Relevant, history
<1>4. CASE Resolve
  BY <1>4, UnrelatedStore DEF Resolve, Relevant, history
<1>5. ASSUME NEW m \in MatchIds, Challenge(m) \/ Accept(m) PROVE StoreInv'
  BY <1>5, AgreeStore
<1>6. ASSUME NEW m \in MatchIds, NEW award, EndMatch(m, award) PROVE StoreInv'
  BY <1>6, EndStore
<1>7. CASE Saving
  BY <1>7, OpenStore, WriteStore, RenameStore DEF Saving
<1>8. CASE Crash
  BY <1>8, CrashStore
<1>9. CASE UNCHANGED vars
  BY <1>9, UnrelatedStore DEF vars, host, history, Relevant
<1> QED
  BY <1>1, <1>2, <1>3, <1>4, <1>5, <1>6, <1>7, <1>8, <1>9 DEF Next

\* storage.ts 149-151.  Through any number of matches and crashes, as long as
\* no two saves of the universe were under way at once, its file holds the
\* whole record that was saved last.
THEOREM CrashLeavesWholeFile == Spec => []FileIsWhole
<1>1. Init => StoreInv
  BY InitStore
<1>2. StoreInv /\ [Next]_vars => StoreInv'
  BY NextStore
<1>3. StoreInv => FileIsWhole
  BY DEF StoreInv
<1> QED
  BY <1>1, <1>2, <1>3, PTL DEF Spec

-----------------------------------------------------------------------------
(* What a connected player was awarded.  A load delivers a record that an  *)
(* award knows nothing of, so the invariant says who may have a load under *)
(* way: nobody who is gone, and nobody who holds an award that no load has *)
(* raced with.                                                             *)

Records == Prestige \union {NoRecord}

PeerTyped ==
  /\ ref \in Records /\ kept \in Records /\ fetched \in Records /\ awarded \in Records
  /\ crashes \in 0 .. MaxCrashes
  /\ seat \in MatchIds \union {NoMatch} /\ last \in MatchIds \union {NoMatch}
  /\ asked \in BOOLEAN /\ overlapped \in BOOLEAN /\ raced \in BOOLEAN
  /\ stake \in [MatchIds -> Records]
  /\ content \in [MatchIds -> Prestige \union {Torn}]

\* A match that was agreed on has something at stake.
Staked == \A m \in MatchIds : status[m] # "unused" => stake[m] \in Prestige

AwardHolds ==
  /\ ~Here => ~Loading /\ awarded = NoRecord
  /\ ~raced /\ awarded # NoRecord => ref = awarded /\ ~Loading

PeerInv == StoreInv /\ PeerTyped /\ Staked /\ AwardHolds

LEMMA NoRecordIsNoPrestige == NoRecord \notin Prestige /\ Torn \notin Records
  BY DEF Prestige, Records

LEMMA InitPeer == Init => PeerInv
<1> SUFFICES ASSUME Init PROVE PeerInv
  OBVIOUS
<1>1. PeerTyped
  <2>1. /\ ref \in Records /\ kept \in Records /\ fetched \in Records /\ awarded \in Records
        /\ asked \in BOOLEAN /\ overlapped \in BOOLEAN /\ raced \in BOOLEAN
    BY DEF Init, Records
  <2>2. crashes \in 0 .. MaxCrashes
    BY DEF Init
  <2>3. stake \in [MatchIds -> Records] /\ content \in [MatchIds -> Prestige \union {Torn}]
    <3> HIDE DEF MatchIds
    <3> QED
      BY DEF Init, Records
  <2>4. seat \in MatchIds \union {NoMatch} /\ last \in MatchIds \union {NoMatch}
    BY DEF Init
  <2> QED
    BY <2>1, <2>2, <2>3, <2>4 DEF PeerTyped
<1>2. Staked /\ AwardHolds
  BY DEF Init, Staked, AwardHolds, Here, Loading
<1> QED
  BY <1>1, <1>2, InitStore DEF PeerInv

\* Connecting, leaving, and the answer to a load.
LEMMA ConnectPeer ==
  ASSUME PeerInv, StoreInv',
         \/ \E announced \in Prestige : Hello(announced)
         \/ Disconnect \/ ReadFile \/ Resolve
  PROVE  PeerInv'
<1>1. UNCHANGED <<crashes, status, stake, disk, last, overlapped, raced>>
  BY DEF Hello, Disconnect, ReadFile, Resolve, history
<1>2. /\ crashes' \in 0 .. MaxCrashes /\ last' \in MatchIds \union {NoMatch}
      /\ overlapped' \in BOOLEAN /\ raced' \in BOOLEAN
      /\ stake' \in [MatchIds -> Records]
      /\ content' \in [MatchIds -> Prestige \union {Torn}] /\ Staked'
  BY <1>1 DEF PeerInv, PeerTyped, Staked, disk
<1>3. ASSUME NEW announced \in Prestige, Hello(announced)
      PROVE  PeerInv'
  BY <1>2, <1>3, NoRecordIsNoPrestige
  DEF Hello, history, PeerInv, PeerTyped, AwardHolds, Here, Loading, Records
<1>4. CASE Disconnect
  BY <1>2, <1>4
  DEF Disconnect, LoadIsDropped, PeerInv, PeerTyped, AwardHolds, Here, Loading, Records
<1>5. CASE ReadFile
  <2>1. fetched' \in Records
    BY <1>5 DEF ReadFile, PeerInv, PeerTyped, StoreInv, Typed, Records
  <2>2. asked /\ ~asked'
    BY <1>5 DEF ReadFile
  <2> QED
    BY <1>2, <1>5, <2>1, <2>2
    DEF ReadFile, history, PeerInv, PeerTyped, AwardHolds, Here, Loading
<1>6. CASE Resolve
  BY <1>2, <1>6 DEF Resolve, history, PeerInv, PeerTyped, AwardHolds, Here, Loading, Records
<1> QED
  BY <1>3, <1>4, <1>5, <1>6

\* Agreeing on a match and beginning it.
LEMMA AgreePeer ==
  ASSUME PeerInv, StoreInv', NEW m \in MatchIds, Challenge(m) \/ Accept(m)
  PROVE  PeerInv'
<1>1. CASE Challenge(m)
  <2>1. ref \in Prestige
    BY <1>1 DEF Challenge, Here, PeerInv, PeerTyped, Records
  <2>2. stake' \in [MatchIds -> Records] /\ Staked'
    BY <1>1, <2>1 DEF Challenge, PeerInv, PeerTyped, Staked, Records, StoreInv, Typed
  <2> QED
    BY <1>1, <2>2
    DEF Challenge, disk, history, PeerInv, PeerTyped, AwardHolds, Here, Loading
<1>2. CASE Accept(m)
  <2>1. Staked'
    BY <1>2 DEF Accept, PeerInv, Staked, StoreInv, Typed
  <2> QED
    BY <1>2, <2>1
    DEF Accept, disk, history, PeerInv, PeerTyped, AwardHolds, Here, Loading
<1> QED
  BY <1>1, <1>2

\* The end of a match: an award made while a load is under way is a race.
LEMMA EndPeer ==
  ASSUME PeerInv, StoreInv', NEW m \in MatchIds, NEW award \in Records, EndMatch(m, award)
  PROVE  PeerInv'
<1>1. /\ UNCHANGED <<crashes, seat, asked, fetched, stake, content>>
      /\ status' = [status EXCEPT ![m] = "over"] /\ status[m] = "live"
      /\ ref' = Awarded(award) /\ kept' = NoRecord /\ last' = m
      /\ awarded' = IF award # NoRecord /\ Here THEN award ELSE awarded
      /\ overlapped' = (overlapped \/ saves # {})
      /\ raced' = (raced \/ (award # NoRecord /\ Loading))
  BY DEF EndMatch, disk
<1>2. Staked'
  BY <1>1 DEF PeerInv, Staked, StoreInv, Typed
<1>3. ref' \in Records /\ awarded' \in Records
  BY <1>1 DEF Awarded, PeerInv, PeerTyped
<1>4. overlapped' \in BOOLEAN /\ raced' \in BOOLEAN
  BY <1>1
<1>5. PeerTyped'
  BY <1>1, <1>3, <1>4 DEF PeerInv, PeerTyped, Records
<1>6. AwardHolds'
  BY <1>1 DEF Awarded, PeerInv, AwardHolds, Here, Loading
<1> QED
  BY <1>2, <1>5, <1>6 DEF PeerInv

\* Saving writes what was at stake, which is a prestige.
LEMMA SavePeer ==
  ASSUME PeerInv, StoreInv', NEW s \in saves, Open(s) \/ Write(s) \/ Rename(s)
  PROVE  PeerInv'
<1>1. UNCHANGED <<crashes, ref, kept, asked, fetched, seat, status, stake>>
      /\ UNCHANGED <<overlapped, last, awarded, raced>>
  BY DEF Open, Write, Rename, host, history
<1>2. stake[s.match] \in Prestige
  BY DEF PeerInv, Staked, StoreInv, SavedIsOver, Typed, Saves
<1>3. content' \in [MatchIds -> Prestige \union {Torn}]
  <2>1. CASE Open(s)
    BY <2>1 DEF Open, PeerInv, PeerTyped
  <2>2. CASE Write(s)
    BY <1>2, <2>2 DEF Write, PeerInv, PeerTyped
  <2>3. CASE Rename(s)
    BY <2>3 DEF Rename, PeerInv, PeerTyped
  <2> QED
    BY <2>1, <2>2, <2>3
<1> QED
  BY <1>1, <1>3 DEF PeerInv, PeerTyped, Staked, AwardHolds, Here, Loading

LEMMA CrashPeer == PeerInv /\ StoreInv' /\ Crash => PeerInv'
<1> SUFFICES ASSUME PeerInv, StoreInv', Crash PROVE PeerInv'
  OBVIOUS
<1>1. /\ UNCHANGED <<stake, content, overlapped, raced>>
      /\ crashes < MaxCrashes /\ crashes' = crashes + 1
      /\ ref' = NoRecord /\ kept' = NoRecord /\ awarded' = NoRecord
      /\ seat' = NoMatch /\ last' = NoMatch
      /\ asked' = FALSE /\ fetched' = NoRecord
      /\ status' = [m \in MatchIds |-> IF status[m] = "unused" THEN "unused" ELSE "over"]
  BY DEF Crash, disk
<1>2. Staked'
  BY <1>1 DEF PeerInv, Staked
<1>3. crashes' \in 0 .. MaxCrashes
  BY <1>1 DEF PeerInv, PeerTyped
<1>4. PeerTyped'
  BY <1>1, <1>3 DEF PeerInv, PeerTyped, Records
<1>5. AwardHolds'
  BY <1>1 DEF AwardHolds, Here, Loading
<1> QED
  BY <1>2, <1>4, <1>5 DEF PeerInv

LEMMA NextPeer == PeerInv /\ [Next]_vars => PeerInv'
<1> SUFFICES ASSUME PeerInv, [Next]_vars PROVE PeerInv'
  OBVIOUS
<1>1. StoreInv'
  BY NextStore DEF PeerInv
<1>2. CASE \/ \E announced \in Prestige : Hello(announced)
           \/ Disconnect \/ ReadFile \/ Resolve
  BY <1>1, <1>2, ConnectPeer
<1>3. ASSUME NEW m \in MatchIds, Challenge(m) \/ Accept(m) PROVE PeerInv'
  BY <1>1, <1>3, AgreePeer
<1>4. ASSUME NEW m \in MatchIds, NEW award \in Records, EndMatch(m, award) PROVE PeerInv'
  BY <1>1, <1>4, EndPeer
<1>5. CASE Saving
  BY <1>1, <1>5, SavePeer DEF Saving
<1>6. CASE Crash
  BY <1>1, <1>6, CrashPeer
<1>7. CASE UNCHANGED vars
  BY <1>1, <1>7
  DEF vars, host, disk, history, PeerInv, PeerTyped, Staked, AwardHolds, Here, Loading
<1> QED
  BY <1>2, <1>3, <1>4, <1>5, <1>6, <1>7 DEF Next, Records

LEMMA AlwaysPeerInv == Spec => []PeerInv
  BY InitPeer, NextPeer, PTL DEF Spec

\* Host and files are well typed: nothing but a prestige is ever saved.
THEOREM TypeCorrect == Spec => []TypeOK
<1>1. PeerInv => TypeOK
  BY DEF PeerInv, PeerTyped, AwardHolds, StoreInv, Typed, Saves, Records, TypeOK
<1> QED
  BY <1>1, AlwaysPeerInv, PTL

\* host.ts endMatch: a player plays on with what it was awarded, unless a load
\* that was under way when the award was made takes it back.
THEOREM AwardsAreCarried == Spec => []AwardIsCarried
<1>1. PeerInv => AwardIsCarried
  BY DEF PeerInv, AwardHolds, AwardIsCarried
<1> QED
  BY <1>1, AlwaysPeerInv, PTL
=============================================================================
