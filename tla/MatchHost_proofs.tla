-------------------------- MODULE MatchHost_proofs --------------------------
(***************************************************************************)
(* packages/server/src/host.ts, for any number of participants,            *)
(* connections, challenges and matches: names, grace entries and players   *)
(* as long as no connection says hello twice; and, whatever connections    *)
(* say, the queue of ended matches and the type of every variable.         *)
(***************************************************************************)
EXTENDS MatchHost, TLAPS

Endings == {"none", "played", "desync", "abandoned"}

\* The part of the type invariant the argument needs.
Typed ==
  /\ accepted \in Nat /\ open \subseteq Conns
  /\ name \in [Conns -> Names \union {NoName}]
  /\ seat \in [Conns -> MatchIds \union {NoMatch}]
  /\ byParticipant \in [Names -> Conns \union {NoConn}]
  /\ challenges \subseteq [id : ChallengeIds, from : Names, to : Names]
  /\ issued \in Nat
  /\ players \in [MatchIds -> {<<>>} \union (Names \X Names)]
  /\ ended \in [MatchIds -> Endings]
  /\ disconnected \in [Names -> MatchIds \union {NoMatch}]
  /\ windowClosed \subseteq Names
  /\ renamed \in BOOLEAN

\* A connection that is not open holds neither a name nor a seat, and the
\* ones still to come are not open.
ClosedAreBlank ==
  /\ \A c \in open : c <= accepted
  /\ \A c \in Conns \ open : name[c] = NoName /\ seat[c] = NoMatch

\* A seat, and a grace entry, is one in a match of one's own.
SeatsAreOwn ==
  \A c \in open :
    seat[c] # NoMatch => seat[c] \in Started /\ name[c] \in PlayersOf(seat[c])

EntriesAreOwn ==
  \A n \in Names :
    disconnected[n] # NoMatch =>
      /\ disconnected[n] \in LiveMatches /\ n \in PlayersOf(disconnected[n])
      /\ byParticipant[n] = NoConn

Index ==
  \A n \in Names, c \in Conns : byParticipant[n] = c <=> c \in open /\ name[c] = n

Orderly == ~renamed => Index /\ SeatsAreOwn /\ EntriesAreOwn

HostInv == Typed /\ ClosedAreBlank /\ Orderly

-----------------------------------------------------------------------------
LEMMA Absent == NoConn \notin Conns /\ NoMatch \notin MatchIds /\ NoName \notin Names
BY HostAssumption DEF NoConn, NoMatch, Conns, MatchIds

LEMMA PlayersAreNames ==
  ASSUME Typed, NEW m \in MatchIds
  PROVE  PlayersOf(m) \subseteq Names
<1>1. CASE players[m] = <<>>
  BY <1>1 DEF PlayersOf
<1>2. CASE players[m] \in Names \X Names
  <2>1. PICK a \in Names, b \in Names : players[m] = <<a, b>>
    BY <1>2
  <2>2. Len(players[m]) = 2 /\ players[m][1] = a /\ players[m][2] = b
    BY <2>1
  <2>3. QED
    BY <2>2 DEF PlayersOf
<1>3. QED
  BY <1>1, <1>2 DEF Typed

\* endMatch ends one match and leaves no entry of its players; whatever
\* entry remains is one that was there.
LEMMA EndMatchClears ==
  ASSUME Typed, NEW m \in LiveMatches, NEW reason \in Endings, reason # "none",
         NEW entries \in [Names -> MatchIds \union {NoMatch}],
         \A n \in Names : entries[n] \in {disconnected[n], NoMatch},
         EndMatch(m, reason, entries)
  PROVE  /\ disconnected' \in [Names -> MatchIds \union {NoMatch}]
         /\ \A n \in Names : disconnected'[n] # NoMatch =>
              disconnected'[n] = disconnected[n] /\ n \notin PlayersOf(m)
         /\ ended' \in [MatchIds -> Endings]
         /\ \A x \in MatchIds \ {m} : ended'[x] = ended[x]
         /\ players' = players
         /\ windowClosed' \subseteq windowClosed
<1>1. m \in MatchIds
  BY DEF LiveMatches, Started
<1>2. ended' = [ended EXCEPT ![m] = reason] /\ players' = players
      /\ disconnected' = GraceAfter(m, entries)
      /\ windowClosed' = {n \in windowClosed : disconnected'[n] # NoMatch}
  BY DEF EndMatch
<1>3. QED
  BY <1>1, <1>2 DEF GraceAfter, Typed

\* So an end disturbs neither index nor seats, and only removes entries.
LEMMA EndMatchOrderly ==
  ASSUME HostInv, NEW m \in LiveMatches, NEW reason \in Endings, reason # "none",
         NEW entries \in [Names -> MatchIds \union {NoMatch}],
         \A n \in Names : entries[n] \in {disconnected[n], NoMatch},
         EndMatch(m, reason, entries),
         UNCHANGED <<conns, challenges, issued, renamed>>
  PROVE  HostInv'
<1>1. /\ disconnected' \in [Names -> MatchIds \union {NoMatch}]
      /\ \A n \in Names : disconnected'[n] # NoMatch =>
           disconnected'[n] = disconnected[n] /\ n \notin PlayersOf(m)
      /\ ended' \in [MatchIds -> Endings]
      /\ \A x \in MatchIds \ {m} : ended'[x] = ended[x]
      /\ players' = players
      /\ windowClosed' \subseteq windowClosed
  BY EndMatchClears DEF HostInv
<1>2. Typed' /\ ClosedAreBlank'
  BY <1>1 DEF HostInv, Typed, ClosedAreBlank, conns
<1>3. ASSUME ~renamed' PROVE Index' /\ SeatsAreOwn' /\ EntriesAreOwn'
  <2>1. Index /\ SeatsAreOwn /\ EntriesAreOwn
    BY <1>3 DEF HostInv, Orderly
  <2>2. Index'
    BY <2>1 DEF Index, conns
  <2>3. Started' = Started
    BY <1>1 DEF Started
  <2>4. SeatsAreOwn'
    BY <1>1, <2>1, <2>3 DEF SeatsAreOwn, PlayersOf, conns
  <2>5. ASSUME NEW n \in Names, disconnected'[n] # NoMatch
        PROVE  (/\ disconnected[n] \in LiveMatches /\ n \in PlayersOf(disconnected[n])
                /\ byParticipant[n] = NoConn)'
    <3>1. disconnected[n] \in LiveMatches /\ n \in PlayersOf(disconnected[n])
          /\ byParticipant[n] = NoConn /\ disconnected'[n] = disconnected[n]
          /\ n \notin PlayersOf(m)
      BY <1>1, <2>1, <2>5 DEF EntriesAreOwn
    <3>2. disconnected[n] # m /\ disconnected[n] \in MatchIds
      BY <3>1 DEF LiveMatches, Started
    <3>3. disconnected[n] \in LiveMatches'
      BY <1>1, <2>3, <3>1, <3>2 DEF LiveMatches
    <3>4. QED
      BY <1>1, <3>1, <3>3 DEF PlayersOf, conns
  <2>6. QED
    BY <2>2, <2>4, <2>5 DEF EntriesAreOwn
<1>4. QED
  BY <1>2, <1>3 DEF HostInv, Orderly

-----------------------------------------------------------------------------
LEMMA InitHost == Init => HostInv
<1>1. ASSUME Init PROVE Typed
  BY <1>1, HostAssumption DEF Init, Typed, Endings
<1>2. ASSUME Init PROVE ClosedAreBlank
  BY <1>2 DEF Init, ClosedAreBlank
<1>3. ASSUME Init PROVE Index /\ SeatsAreOwn /\ EntriesAreOwn
  BY <1>3, Absent DEF Init, Index, SeatsAreOwn, EntriesAreOwn
<1>4. QED
  BY <1>1, <1>2, <1>3 DEF HostInv, Orderly

LEMMA ConnectHost == ASSUME HostInv, Connect PROVE HostInv'
<1> DEFINE new == accepted + 1
<1>1. new \in Conns /\ new \notin open
  BY HostAssumption DEF HostInv, Typed, ClosedAreBlank, Connect, Conns
<1>2. name[new] = NoName /\ seat[new] = NoMatch
  BY <1>1 DEF HostInv, ClosedAreBlank
<1>3. accepted' = new /\ open' = open \union {new}
      /\ UNCHANGED <<name, seat, byParticipant, challenges, issued, players, ended,
                     disconnected, windowClosed, renamed>>
  BY DEF Connect, matches, grace, history
<1>4. Typed'
  BY <1>1, <1>3 DEF HostInv, Typed
<1>5. ClosedAreBlank'
  BY <1>1, <1>3 DEF HostInv, Typed, ClosedAreBlank, Conns
<1>6. ASSUME ~renamed' PROVE Index' /\ SeatsAreOwn' /\ EntriesAreOwn'
  <2>1. Index /\ SeatsAreOwn /\ EntriesAreOwn
    BY <1>3, <1>6 DEF HostInv, Orderly
  <2>2. Index'
    BY <1>1, <1>2, <1>3, <2>1, Absent DEF Index
  <2>3. SeatsAreOwn'
    BY <1>2, <1>3, <2>1 DEF SeatsAreOwn, Started, PlayersOf
  <2>4. EntriesAreOwn'
    BY <1>3, <2>1 DEF EntriesAreOwn, LiveMatches, Started, PlayersOf
  <2>5. QED
    BY <2>2, <2>3, <2>4
<1>7. QED
  BY <1>4, <1>5, <1>6 DEF HostInv, Orderly

LEMMA HelloHost ==
  ASSUME HostInv, NEW c \in Conns, NEW n \in Names, Hello(c, n)
  PROVE  HostInv'
<1>1. /\ c \in open /\ byParticipant[n] = NoConn
      /\ name' = [name EXCEPT ![c] = n]
      /\ byParticipant' = [byParticipant EXCEPT ![n] = c]
      /\ disconnected' = [disconnected EXCEPT ![n] = NoMatch]
      /\ windowClosed' = windowClosed \ {n}
      /\ renamed' = (renamed \/ name[c] # NoName)
      /\ UNCHANGED <<open, accepted, challenges, issued, players, ended>>
  BY DEF Hello, matches
<1>2. \/ Resumes(n) # NoMatch /\ seat' = [seat EXCEPT ![c] = Resumes(n)]
      \/ Resumes(n) = NoMatch /\ seat' = seat
  BY DEF Hello
<1>3. Resumes(n) # NoMatch => Resumes(n) = disconnected[n] /\ disconnected[n] \in LiveMatches
  BY DEF Resumes
<1>4. Resumes(n) \in MatchIds \union {NoMatch}
  BY DEF Resumes, HostInv, Typed
<1>5. Typed'
  BY <1>1, <1>2, <1>4 DEF HostInv, Typed
<1>6. ClosedAreBlank'
  BY <1>1, <1>2 DEF HostInv, Typed, ClosedAreBlank
<1>7. ASSUME ~renamed' PROVE Index' /\ SeatsAreOwn' /\ EntriesAreOwn'
  <2>1. Index /\ SeatsAreOwn /\ EntriesAreOwn /\ name[c] = NoName
    BY <1>1, <1>7 DEF HostInv, Orderly
  <2>2. Index'
    BY <1>1, <2>1, Absent DEF Index, HostInv, Typed
  <2>3. Started' = Started /\ LiveMatches' = LiveMatches
    BY <1>1 DEF LiveMatches, Started
  <2>4. seat[c] = NoMatch
    <3>1. SUFFICES ASSUME seat[c] # NoMatch PROVE FALSE
      OBVIOUS
    <3>2. seat[c] \in MatchIds /\ name[c] \in PlayersOf(seat[c])
      BY <1>1, <2>1, <3>1 DEF SeatsAreOwn, Started
    <3>3. QED
      BY <2>1, <3>2, PlayersAreNames, Absent DEF HostInv
  <2>5. SeatsAreOwn'
    <3>1. SUFFICES ASSUME NEW x \in open, seat'[x] # NoMatch
                   PROVE  seat'[x] \in Started /\ name'[x] \in PlayersOf(seat'[x])
      BY <1>1, <2>3 DEF SeatsAreOwn, PlayersOf
    <3>2. CASE x # c
      BY <1>1, <1>2, <2>1, <3>1, <3>2 DEF SeatsAreOwn, HostInv, Typed
    <3>3. CASE x = c
      <4>1. seat'[c] = disconnected[n] /\ disconnected[n] \in LiveMatches
            /\ disconnected[n] # NoMatch
        BY <1>1, <1>2, <1>3, <2>4, <3>1, <3>3 DEF HostInv, Typed
      <4>2. name'[c] = n
        BY <1>1 DEF HostInv, Typed
      <4>3. QED
        BY <2>1, <3>3, <4>1, <4>2 DEF EntriesAreOwn, LiveMatches
    <3>4. QED
      BY <3>2, <3>3
  <2>6. EntriesAreOwn'
    BY <1>1, <2>1, <2>3 DEF EntriesAreOwn, PlayersOf, HostInv, Typed
  <2>7. QED
    BY <2>2, <2>5, <2>6
<1>8. QED
  BY <1>5, <1>6, <1>7 DEF HostInv, Orderly

LEMMA ChallengeHost ==
  ASSUME HostInv, NEW c \in Conns, NEW n \in Names, Challenge(c, n)
  PROVE  HostInv'
<1>1. challenges' = challenges \union {[id |-> issued + 1, from |-> name[c], to |-> n]}
      /\ name[c] \in Names /\ issued + 1 \in ChallengeIds /\ issued' = issued + 1
      /\ UNCHANGED <<conns, players, ended, disconnected, windowClosed, renamed>>
  BY HostAssumption DEF Challenge, HostInv, Typed, matches, grace, history, ChallengeIds
<1>2. Typed' /\ ClosedAreBlank'
  BY <1>1 DEF HostInv, Typed, ClosedAreBlank, conns
<1>3. Orderly'
  BY <1>1 DEF HostInv, Orderly, Index, SeatsAreOwn, EntriesAreOwn, LiveMatches, Started,
              PlayersOf, conns
<1>4. QED
  BY <1>2, <1>3 DEF HostInv

LEMMA AcceptHost ==
  ASSUME HostInv, NEW c \in Conns, NEW ch \in challenges, NEW m \in MatchIds, Accept(c, ch, m)
  PROVE  HostInv'
<1> DEFINE seated == {x \in open : x \in {byParticipant[ch.from], byParticipant[ch.to]}}
<1>1. /\ m \notin Started
      /\ challenges' = challenges \ {ch}
      /\ players' = [players EXCEPT ![m] = <<ch.from, ch.to>>]
      /\ seat' = [x \in Conns |-> IF x \in seated THEN m ELSE seat[x]]
      /\ UNCHANGED <<open, accepted, name, byParticipant, issued, ended, disconnected,
                     windowClosed, renamed>>
  BY DEF Accept, IsNext, grace
<1>2. ch.from \in Names /\ ch.to \in Names
  BY DEF HostInv, Typed
<1>3. players' \in [MatchIds -> {<<>>} \union (Names \X Names)]
  BY <1>1, <1>2 DEF HostInv, Typed
<1>4. Typed'
  BY <1>1, <1>3 DEF HostInv, Typed
<1>5. ClosedAreBlank'
  BY <1>1 DEF HostInv, Typed, ClosedAreBlank
<1>6. players'[m] = <<ch.from, ch.to>> /\ \A x \in MatchIds \ {m} : players'[x] = players[x]
  BY <1>1 DEF HostInv, Typed
<1>7. Started' = Started \union {m}
  BY <1>6 DEF Started
<1>8. Len(players'[m]) = 2 /\ players'[m][1] = ch.from /\ players'[m][2] = ch.to
  BY <1>6
<1>9. \A x \in Started : x \in MatchIds /\ x # m /\ players'[x] = players[x]
  BY <1>1, <1>6 DEF Started
<1>10. ASSUME ~renamed' PROVE Index' /\ SeatsAreOwn' /\ EntriesAreOwn'
  <2>1. Index /\ SeatsAreOwn /\ EntriesAreOwn
    BY <1>1, <1>10 DEF HostInv, Orderly
  <2>2. Index'
    BY <1>1, <2>1 DEF Index
  <2>3. SeatsAreOwn'
    <3>1. SUFFICES ASSUME NEW x \in open, seat'[x] # NoMatch
                   PROVE  (seat[x] \in Started /\ name[x] \in PlayersOf(seat[x]))'
      BY <1>1 DEF SeatsAreOwn
    <3>2. x \in Conns
      BY DEF HostInv, Typed
    <3>3. CASE x \in seated
      <4>1. seat'[x] = m
        BY <1>1, <3>2, <3>3
      <4>2. name[x] \in {ch.from, ch.to}
        BY <1>2, <2>1, <3>2, <3>3 DEF Index
      <4>3. QED
        BY <1>1, <1>7, <1>8, <4>1, <4>2 DEF PlayersOf
    <3>4. CASE x \notin seated
      <4>1. seat'[x] = seat[x]
        BY <1>1, <3>2, <3>4
      <4>2. QED
        BY <1>1, <1>7, <1>9, <2>1, <3>1, <4>1 DEF SeatsAreOwn, PlayersOf
    <3>5. QED
      BY <3>3, <3>4
  <2>4. EntriesAreOwn'
    BY <1>1, <1>7, <1>9, <2>1 DEF EntriesAreOwn, LiveMatches, PlayersOf
  <2>5. QED
    BY <2>2, <2>3, <2>4
<1>11. QED
  BY <1>4, <1>5, <1>10 DEF HostInv, Orderly

LEMMA DisconnectHost ==
  ASSUME HostInv, NEW c \in Conns, Disconnect(c)
  PROVE  HostInv'
<1> DEFINE m == seat[c]
           n == name[c]
<1>1. /\ c \in open /\ open' = open \ {c}
      /\ byParticipant' = NameReleased(c)
      /\ name' = [name EXCEPT ![c] = NoName]
      /\ seat' = [seat EXCEPT ![c] = NoMatch]
      /\ UNCHANGED <<accepted, challenges, issued, renamed>>
  BY DEF Disconnect
<1>2. /\ \A k \in Names : disconnected'[k] # NoMatch =>
           \/ disconnected'[k] = disconnected[k] /\ ended' = ended
           \/ disconnected'[k] = disconnected[k] /\ m \in LiveMatches /\ k \notin PlayersOf(m)
           \/ k = n /\ m \in LiveMatches /\ disconnected'[k] = m /\ ended' = ended
      /\ ended' \in [MatchIds -> Endings]
      /\ \A x \in MatchIds \ {m} : ended'[x] = ended[x]
      /\ players' = players
      /\ disconnected' \in [Names -> MatchIds \union {NoMatch}]
      /\ windowClosed' \subseteq Names
  <2>1. CASE m \in LiveMatches /\ graceAllowed
    <3>1. disconnected' = [disconnected EXCEPT ![n] = m] /\ ended' = ended /\ players' = players
          /\ windowClosed' = windowClosed \ {n}
      BY <2>1 DEF Disconnect, matches
    <3>2. m \in MatchIds
      BY <2>1 DEF LiveMatches, Started
    <3>3. QED
      BY <2>1, <3>1, <3>2 DEF HostInv, Typed
  <2>2. CASE m \in LiveMatches /\ ~graceAllowed
    <3>1. EndMatch(m, "abandoned", disconnected)
      BY <2>2 DEF Disconnect
    <3>2. disconnected \in [Names -> MatchIds \union {NoMatch}] /\ Typed
      BY DEF HostInv, Typed
    <3>3. /\ disconnected' \in [Names -> MatchIds \union {NoMatch}]
          /\ \A k \in Names : disconnected'[k] # NoMatch =>
               disconnected'[k] = disconnected[k] /\ k \notin PlayersOf(m)
          /\ ended' \in [MatchIds -> Endings]
          /\ \A x \in MatchIds \ {m} : ended'[x] = ended[x]
          /\ players' = players
          /\ windowClosed' \subseteq windowClosed
      BY <2>2, <3>1, <3>2, EndMatchClears DEF Endings
    <3>4. QED
      BY <2>2, <3>2, <3>3 DEF Typed
  <2>3. CASE m \notin LiveMatches
    <3>1. UNCHANGED <<matches, grace>>
      BY <2>3 DEF Disconnect
    <3>2. QED
      BY <3>1 DEF matches, grace, HostInv, Typed
  <2>4. QED
    BY <2>1, <2>2, <2>3
<1>3. byParticipant' \in [Names -> Conns \union {NoConn}]
      /\ \A k \in Names : byParticipant'[k] = IF k = n THEN NoConn ELSE byParticipant[k]
  BY <1>1 DEF NameReleased, HostInv, Typed
<1>4. Typed'
  BY <1>1, <1>2, <1>3 DEF HostInv, Typed
<1>5. ClosedAreBlank'
  BY <1>1 DEF HostInv, Typed, ClosedAreBlank
<1>6. ASSUME ~renamed' PROVE Index' /\ SeatsAreOwn' /\ EntriesAreOwn'
  <2>1. Index /\ SeatsAreOwn /\ EntriesAreOwn
    BY <1>1, <1>6 DEF HostInv, Orderly
  <2>2. Started' = Started
    BY <1>2 DEF Started
  <2>3. Index'
    BY <1>1, <1>3, <2>1, Absent DEF Index, HostInv, Typed
  <2>4. SeatsAreOwn'
    BY <1>1, <1>2, <2>1, <2>2 DEF SeatsAreOwn, PlayersOf, HostInv, Typed
  <2>5. ASSUME NEW k \in Names, disconnected'[k] # NoMatch
        PROVE  (/\ disconnected[k] \in LiveMatches /\ k \in PlayersOf(disconnected[k])
                /\ byParticipant[k] = NoConn)'
    <3>1. CASE disconnected'[k] = disconnected[k]
      <4>1. disconnected[k] \in LiveMatches /\ k \in PlayersOf(disconnected[k])
            /\ byParticipant[k] = NoConn
        BY <2>1, <2>5, <3>1 DEF EntriesAreOwn
      <4>2. disconnected[k] \in MatchIds
        BY <4>1 DEF LiveMatches, Started
      <4>3. ended'[disconnected[k]] = ended[disconnected[k]]
        <5>1. CASE disconnected[k] # m
          BY <1>2, <4>2, <5>1
        <5>2. CASE disconnected[k] = m
          BY <1>2, <2>5, <4>1, <5>2
        <5>3. QED
          BY <5>1, <5>2
      <4>4. QED
        BY <1>2, <1>3, <2>2, <3>1, <4>1, <4>3 DEF LiveMatches, PlayersOf
    <3>2. CASE k = n /\ m \in LiveMatches /\ disconnected'[k] = m /\ ended' = ended
      <4>1. k \in PlayersOf(m)
        BY <1>1, <2>1, <2>5, <3>2 DEF SeatsAreOwn
      <4>2. QED
        BY <1>2, <1>3, <2>2, <3>2, <4>1 DEF LiveMatches, PlayersOf
    <3>3. QED
      BY <1>2, <2>5, <3>1, <3>2
  <2>6. QED
    BY <2>3, <2>4, <2>5 DEF EntriesAreOwn
<1>7. QED
  BY <1>4, <1>5, <1>6 DEF HostInv, Orderly

\* Steps that leave names, seats, matches' players and entries alone.
LEMMA FrameHost ==
  ASSUME HostInv,
         UNCHANGED <<conns, issued, players, ended, disconnected, renamed>>,
         challenges' \subseteq challenges, windowClosed' \subseteq Names
  PROVE  HostInv'
<1>1. Typed' /\ ClosedAreBlank'
  BY DEF HostInv, Typed, ClosedAreBlank, conns
<1>2. Orderly'
  BY DEF HostInv, Orderly, Index, SeatsAreOwn, EntriesAreOwn, LiveMatches, Started,
         PlayersOf, conns
<1>3. QED
  BY <1>1, <1>2 DEF HostInv

LEMMA MatchStepHost ==
  ASSUME HostInv, NEW c \in Conns, Dispute(c) \/ Leave(c)
  PROVE  HostInv'
<1>1. disconnected \in [Names -> MatchIds \union {NoMatch}] /\ windowClosed \subseteq Names
  BY DEF HostInv, Typed
<1>2. CASE seat[c] \in LiveMatches /\ EndMatch(seat[c], "desync", disconnected)
           /\ UNCHANGED <<conns, challenges, issued, doubled, renamed, absent>>
  BY <1>1, <1>2, EndMatchOrderly DEF Endings
<1>3. CASE seat[c] \in LiveMatches /\ EndMatch(seat[c], "abandoned", disconnected)
           /\ UNCHANGED <<conns, challenges, issued, doubled, renamed, absent>>
  BY <1>1, <1>3, EndMatchOrderly DEF Endings
<1>4. CASE UNCHANGED <<conns, challenges, issued, players, tick, ended, grace, history>>
  BY <1>1, <1>4, FrameHost DEF grace, history
<1>5. QED
  BY <1>2, <1>3, <1>4 DEF Dispute, Leave

LEMMA ExpireHost ==
  ASSUME HostInv, NEW n \in Names, Expire(n)
  PROVE  HostInv'
<1> DEFINE m == disconnected[n]
           entries == [disconnected EXCEPT ![n] = NoMatch]
<1>1. entries \in [Names -> MatchIds \union {NoMatch}]
      /\ \A k \in Names : entries[k] \in {disconnected[k], NoMatch}
  BY DEF HostInv, Typed
<1>2. UNCHANGED <<conns, challenges, issued, doubled, renamed, absent>>
  BY DEF Expire
<1>3. CASE m \in LiveMatches
  <2>1. EndMatch(m, "abandoned", entries)
    BY <1>3 DEF Expire
  <2>2. QED
    BY <1>1, <1>2, <1>3, <2>1, EndMatchOrderly DEF Endings
<1>4. CASE m \notin LiveMatches
  <2>1. disconnected' = entries /\ windowClosed' = windowClosed \ {n}
        /\ UNCHANGED <<players, ended>>
    BY <1>4 DEF Expire, matches
  <2>2. Typed' /\ ClosedAreBlank'
    BY <1>1, <1>2, <2>1 DEF HostInv, Typed, ClosedAreBlank, conns
  <2>3. Orderly'
    BY <1>1, <1>2, <2>1 DEF HostInv, Typed, Orderly, Index, SeatsAreOwn, EntriesAreOwn,
       LiveMatches, Started, PlayersOf, conns
  <2>4. QED
    BY <2>2, <2>3 DEF HostInv
<1>5. QED
  BY <1>3, <1>4

LEMMA PumpHost ==
  ASSUME HostInv, NEW m \in MatchIds, Pump(m)
  PROVE  HostInv'
<1>1. PICK reason \in Outcomes(m) :
        IF reason = "none"
        THEN /\ tick' = [tick EXCEPT ![m] = @ + 1]
             /\ UNCHANGED <<players, ended, settled, grace, owed>>
        ELSE EndMatch(m, reason, disconnected)
  BY DEF Pump
<1>2. m \in LiveMatches /\ UNCHANGED <<conns, challenges, issued, doubled, renamed, absent>>
      /\ disconnected \in [Names -> MatchIds \union {NoMatch}] /\ windowClosed \subseteq Names
  BY DEF Pump, Due, HostInv, Typed
<1>3. CASE reason = "none"
  BY <1>1, <1>2, <1>3, FrameHost DEF grace
<1>4. CASE reason # "none"
  <2>1. reason \in Endings
    BY DEF Outcomes, Endings
  <2>2. QED
    BY <1>1, <1>2, <1>4, <2>1, EndMatchOrderly
<1>5. QED
  BY <1>3, <1>4

LEMMA NextHost == ASSUME HostInv, [Next]_vars PROVE HostInv'
<1>1. CASE Connect
  BY <1>1, ConnectHost
<1>2. ASSUME NEW c \in Conns, NEW n \in Names, Hello(c, n) \/ Challenge(c, n) PROVE HostInv'
  BY <1>2, HelloHost, ChallengeHost
<1>3. ASSUME NEW c \in Conns, NEW ch \in challenges, Decline(c, ch) PROVE HostInv'
  <2>1. challenges' \subseteq challenges /\ windowClosed' \subseteq Names
        /\ UNCHANGED <<conns, issued, players, ended, disconnected, renamed>>
    BY <1>3 DEF Decline, matches, grace, history, HostInv, Typed
  <2>2. QED
    BY <2>1, FrameHost
<1>4. ASSUME NEW c \in Conns, NEW ch \in challenges, NEW m \in MatchIds, Accept(c, ch, m)
      PROVE  HostInv'
  BY <1>4, AcceptHost
<1>5. ASSUME NEW c \in Conns, Dispute(c) \/ Leave(c) PROVE HostInv'
  BY <1>5, MatchStepHost
<1>6. ASSUME NEW c \in Conns, Disconnect(c) PROVE HostInv'
  BY <1>6, DisconnectHost
<1>7. ASSUME NEW n \in Names, WindowPasses(n) PROVE HostInv'
  <2>1. challenges' \subseteq challenges /\ windowClosed' \subseteq Names
        /\ UNCHANGED <<conns, issued, players, ended, disconnected, renamed>>
    BY <1>7 DEF WindowPasses, matches, history, HostInv, Typed
  <2>2. QED
    BY <2>1, FrameHost
<1>8. ASSUME NEW n \in Names, Expire(n) PROVE HostInv'
  BY <1>8, ExpireHost
<1>9. ASSUME NEW m \in MatchIds, Pump(m) PROVE HostInv'
  BY <1>9, PumpHost
<1>10. ASSUME (\E m \in MatchIds : Throw(m)) \/ UNCHANGED vars PROVE HostInv'
  <2>1. UNCHANGED <<conns, challenges, issued, matches, grace, history>>
    BY <1>10 DEF Throw, vars
  <2>2. challenges' \subseteq challenges /\ windowClosed' \subseteq Names
        /\ UNCHANGED <<conns, issued, players, ended, disconnected, renamed>>
    BY <2>1 DEF matches, grace, history, HostInv, Typed
  <2>3. QED
    BY <2>2, FrameHost
<1>11. QED
  BY <1>1, <1>2, <1>3, <1>4, <1>5, <1>6, <1>7, <1>8, <1>9, <1>10 DEF Next, Handlers, Frame

LEMMA AlwaysHostInv == Spec => []HostInv
BY InitHost, NextHost, PTL DEF Spec

\* A participant's name is taken exactly while a connection of its own is
\* open, so a drop always frees it for the one that reconnects.
THEOREM NamesStayLive == Spec => []NamesAreLive
<1>1. HostInv => NamesAreLive
  BY DEF HostInv, Orderly, Index, NamesAreLive
<1>2. QED
  BY <1>1, AlwaysHostInv, PTL

\* A grace entry is always for a match that still runs and a participant
\* that is away: onHello's fall-through for a match that ended meanwhile is
\* never taken.
THEOREM EntriesAreFresh == Spec => []NoStaleEntry
<1>1. HostInv => NoStaleEntry
  BY DEF HostInv, Orderly, EntriesAreOwn, NoStaleEntry
<1>2. QED
  BY <1>1, AlwaysHostInv, PTL

-----------------------------------------------------------------------------
(* The players of running matches.  Whether a player has its seat or an    *)
(* entry is settled name by name only if no name plays in two running      *)
(* matches: an entry is dropped, and a seat taken, for whichever match.    *)

Sits(m, n) == byParticipant[n] \in open /\ seat[byParticipant[n]] = m

Exclusive ==
  \A x, y \in LiveMatches : x # y => PlayersOf(x) \intersect PlayersOf(y) = {}

AllPlaced ==
  \A m \in LiveMatches : \A n \in PlayersOf(m) : Sits(m, n) <=> disconnected[n] # m

Untroubled == ~doubled /\ ~renamed /\ ~absent

SeatInv == HostInv /\ (Untroubled => Exclusive /\ AllPlaced)

LEMMA TwoPlayers ==
  ASSUME Typed, NEW m \in Started
  PROVE  /\ m \in MatchIds
         /\ players[m][1] \in Names /\ players[m][2] \in Names
         /\ PlayersOf(m) = {players[m][1], players[m][2]}
<1>1. m \in MatchIds /\ players[m] \in Names \X Names
  BY DEF Started, Typed
<1>2. PICK a \in Names, b \in Names : players[m] = <<a, b>>
  BY <1>1
<1>3. Len(players[m]) = 2 /\ players[m][1] = a /\ players[m][2] = b
  BY <1>2
<1> QED
  BY <1>1, <1>3 DEF PlayersOf

\* An end takes one match, and no entry that a running match needs.
LEMMA EndMatchPlaced ==
  ASSUME SeatInv, Untroubled, NEW m \in LiveMatches, NEW reason, reason # "none",
         NEW entries, EndMatch(m, reason, entries),
         \A n \in Names : entries[n] = disconnected[n] \/ n \in PlayersOf(m),
         UNCHANGED players,
         \A x \in LiveMatches \ {m} : \A n \in PlayersOf(x) :
           n \notin PlayersOf(m) => (Sits(x, n)' <=> Sits(x, n))
  PROVE  Exclusive' /\ AllPlaced'
<1>1. /\ ended' = [ended EXCEPT ![m] = reason] /\ disconnected' = GraceAfter(m, entries)
      /\ m \in MatchIds
  BY DEF EndMatch, LiveMatches, Started
<1>2. LiveMatches' \subseteq LiveMatches \ {m}
  BY <1>1 DEF LiveMatches, Started, SeatInv, HostInv, Typed
<1>3. \A x \in LiveMatches' : PlayersOf(x)' = PlayersOf(x)
  BY DEF PlayersOf
<1>4. Exclusive'
  BY <1>2, <1>3 DEF SeatInv, Exclusive
<1>5. ASSUME NEW x \in LiveMatches', NEW n \in PlayersOf(x)'
      PROVE  Sits(x, n)' <=> disconnected'[n] # x
  <2>1. x \in LiveMatches \ {m} /\ n \in PlayersOf(x)
    BY <1>2, <1>3
  <2>2. n \notin PlayersOf(m)
    BY <2>1 DEF SeatInv, Exclusive
  <2>3. n \in Names
    BY <2>1, PlayersAreNames DEF SeatInv, HostInv, LiveMatches, Started
  <2>4. disconnected'[n] = disconnected[n]
    BY <1>1, <2>2, <2>3 DEF GraceAfter
  <2> QED
    BY <2>1, <2>2, <2>4 DEF SeatInv, AllPlaced
<1> QED
  BY <1>4, <1>5 DEF AllPlaced

\* An end that leaves the connections alone.
LEMMA EndMatchSeats ==
  ASSUME SeatInv, HostInv', Untroubled', NEW m \in LiveMatches, NEW reason, reason # "none",
         NEW entries, EndMatch(m, reason, entries),
         \A n \in Names : entries[n] = disconnected[n] \/ n \in PlayersOf(m),
         UNCHANGED <<conns, doubled, renamed, absent>>
  PROVE  Exclusive' /\ AllPlaced'
<1>1. Untroubled /\ UNCHANGED players
  BY DEF Untroubled, EndMatch
<1>2. \A x \in LiveMatches \ {m} : \A n \in PlayersOf(x) : Sits(x, n)' <=> Sits(x, n)
  BY DEF Sits, conns
<1> QED
  BY <1>1, <1>2, EndMatchPlaced

LEMMA StandingSeats ==
  ASSUME SeatInv, Untroubled', UNCHANGED <<conns, players, ended, disconnected>>,
         UNCHANGED <<doubled, renamed, absent>>
  PROVE  Exclusive' /\ AllPlaced'
<1>1. Exclusive /\ AllPlaced
  BY DEF SeatInv, Untroubled
<1>2. LiveMatches' = LiveMatches /\ \A m \in LiveMatches : PlayersOf(m)' = PlayersOf(m)
  BY DEF LiveMatches, Started, PlayersOf
<1>3. \A m, n : Sits(m, n)' <=> Sits(m, n)
  BY DEF Sits, conns
<1> QED
  BY <1>1, <1>2, <1>3 DEF Exclusive, AllPlaced

LEMMA ConnectSeats ==
  ASSUME SeatInv, HostInv', Untroubled', Connect
  PROVE  Exclusive' /\ AllPlaced'
<1> DEFINE new == accepted + 1
<1>1. /\ open' = open \union {new} /\ new \notin open
      /\ UNCHANGED <<name, seat, byParticipant, matches, grace, history>>
  BY HostAssumption DEF Connect, SeatInv, HostInv, Typed, ClosedAreBlank
<1>2. Untroubled /\ Index
  BY <1>1 DEF history, Untroubled, SeatInv, HostInv, Orderly
<1>3. new \in Conns
  BY HostAssumption DEF Connect, SeatInv, HostInv, Typed, Conns
<1>4. \A n \in Names : byParticipant[n] # new
  BY <1>1, <1>2, <1>3 DEF Index
<1>5. LiveMatches' = LiveMatches /\ \A m \in LiveMatches : PlayersOf(m)' = PlayersOf(m)
  BY <1>1 DEF LiveMatches, Started, PlayersOf, matches
<1>6. \A m \in LiveMatches : PlayersOf(m) \subseteq Names
  BY PlayersAreNames DEF SeatInv, HostInv, LiveMatches, Started
<1>7. \A m \in LiveMatches, n \in Names : Sits(m, n)' <=> Sits(m, n)
  BY <1>1, <1>4 DEF Sits
<1>8. Exclusive'
  BY <1>2, <1>5 DEF SeatInv, Exclusive
<1>9. disconnected' = disconnected
  BY <1>1 DEF grace
<1> QED
  BY <1>2, <1>5, <1>6, <1>7, <1>8, <1>9 DEF SeatInv, AllPlaced

\* A name that was away takes its entry's seat again.
LEMMA HelloSeats ==
  ASSUME SeatInv, HostInv', Untroubled', NEW c \in Conns, NEW n \in Names, Hello(c, n)
  PROVE  Exclusive' /\ AllPlaced'
<1>1. /\ c \in open /\ byParticipant[n] = NoConn
      /\ byParticipant' = [byParticipant EXCEPT ![n] = c]
      /\ disconnected' = [disconnected EXCEPT ![n] = NoMatch]
      /\ renamed' = (renamed \/ name[c] # NoName)
      /\ seat' = IF Resumes(n) # NoMatch THEN [seat EXCEPT ![c] = Resumes(n)] ELSE seat
      /\ UNCHANGED <<open, players, ended, doubled, absent>>
  BY DEF Hello, matches
<1>2. Untroubled /\ name[c] = NoName
  BY <1>1 DEF Untroubled
<1>3. Index /\ Exclusive /\ AllPlaced
  BY <1>2 DEF SeatInv, HostInv, Orderly, Untroubled
<1>4. LiveMatches' = LiveMatches /\ \A m \in LiveMatches : PlayersOf(m)' = PlayersOf(m)
  BY <1>1 DEF LiveMatches, Started, PlayersOf
<1>5. \A x \in Names : byParticipant[x] # c
  BY <1>2, <1>3, Absent DEF Index
<1>6. ASSUME NEW m \in LiveMatches, NEW x \in PlayersOf(m)
      PROVE  Sits(m, x)' <=> disconnected'[x] # m
  <2>0. x \in Names /\ m # NoMatch
    BY PlayersAreNames, Absent DEF SeatInv, HostInv, LiveMatches, Started
  <2>1. CASE x = n
    <3>1. ~Sits(m, n)
      BY <1>1, Absent DEF Sits, SeatInv, HostInv, Typed
    <3>2. disconnected[n] = m
      BY <1>3, <1>6, <2>1, <3>1 DEF AllPlaced
    <3>3. Resumes(n) = m
      BY <3>2 DEF Resumes
    <3>4. byParticipant'[n] = c /\ seat'[c] = m /\ disconnected'[n] = NoMatch
      BY <1>1, <2>0, <3>3 DEF SeatInv, HostInv, Typed
    <3> QED
      BY <1>1, <2>0, <2>1, <3>4 DEF Sits
  <2>2. CASE x # n
    <3>1. byParticipant'[x] = byParticipant[x] /\ disconnected'[x] = disconnected[x]
      BY <1>1, <2>0, <2>2 DEF SeatInv, HostInv, Typed
    <3>2. byParticipant[x] \in open => seat'[byParticipant[x]] = seat[byParticipant[x]]
      BY <1>1, <1>5, <2>0 DEF SeatInv, HostInv, Typed
    <3> QED
      BY <1>1, <1>3, <3>1, <3>2 DEF Sits, AllPlaced
  <2> QED
    BY <2>1, <2>2
<1> QED
  BY <1>3, <1>4, <1>6 DEF Exclusive, AllPlaced

\* Both players are here and play nowhere else, so both are seated.
LEMMA AcceptSeats ==
  ASSUME SeatInv, HostInv', Untroubled', NEW c \in Conns, NEW ch \in challenges,
         NEW m \in MatchIds, Accept(c, ch, m)
  PROVE  Exclusive' /\ AllPlaced'
<1> DEFINE two == {ch.from, ch.to}
           seated == {x \in open : x \in {byParticipant[ch.from], byParticipant[ch.to]}}
<1>1. /\ m \notin Started
      /\ players' = [players EXCEPT ![m] = <<ch.from, ch.to>>]
      /\ seat' = [x \in Conns |-> IF x \in seated THEN m ELSE seat[x]]
      /\ UNCHANGED <<open, byParticipant, ended, disconnected, renamed>>
      /\ doubled' = (doubled \/ \E live \in LiveMatches : PlayersOf(live) \intersect two # {})
      /\ absent' = (absent \/ \E n \in two : byParticipant[n] \notin open)
  BY DEF Accept, IsNext, grace
<1>2. /\ Untroubled /\ \A live \in LiveMatches : PlayersOf(live) \intersect two = {}
      /\ \A n \in two : byParticipant[n] \in open
  BY <1>1 DEF Untroubled
<1>3. Index /\ EntriesAreOwn /\ Exclusive /\ AllPlaced
  BY <1>2 DEF SeatInv, HostInv, Orderly, Untroubled
<1>4. two \subseteq Names
  BY DEF SeatInv, HostInv, Typed
<1>5. \A x \in Started : x # m /\ players'[x] = players[x]
  BY <1>1 DEF Started, SeatInv, HostInv, Typed
<1>6. LiveMatches' \subseteq LiveMatches \union {m}
      /\ \A x \in LiveMatches : x # m /\ PlayersOf(x)' = PlayersOf(x)
  <2>1. \A x \in LiveMatches : x \in Started
    BY DEF LiveMatches
  <2>2. Started' \subseteq Started \union {m}
    BY <1>1 DEF Started, SeatInv, HostInv, Typed
  <2> QED
    BY <1>1, <1>5, <2>1, <2>2 DEF LiveMatches, PlayersOf
<1>7. PlayersOf(m)' = two
  <2>1. players'[m] = <<ch.from, ch.to>>
    BY <1>1 DEF SeatInv, HostInv, Typed
  <2>2. Len(players'[m]) = 2 /\ players'[m][1] = ch.from /\ players'[m][2] = ch.to
    BY <2>1
  <2> QED
    BY <2>2 DEF PlayersOf
<1>8. Exclusive'
  BY <1>2, <1>3, <1>6, <1>7 DEF Exclusive
<1>9. ASSUME NEW n \in two
      PROVE  Sits(m, n)' /\ disconnected'[n] # m
  <2>1. byParticipant[n] \in seated /\ byParticipant[n] \in Conns
    BY <1>2, <1>9 DEF SeatInv, HostInv, Typed
  <2>2. disconnected[n] # m
    BY <1>1, <1>3, <1>4, Absent DEF EntriesAreOwn, LiveMatches
  <2> QED
    BY <1>1, <2>1, <2>2 DEF Sits
<1>10. ASSUME NEW x \in LiveMatches, NEW n \in PlayersOf(x)
       PROVE  Sits(x, n)' <=> disconnected'[n] # x
  <2>1. n \in Names /\ n \notin two
    BY <1>2, PlayersAreNames DEF SeatInv, HostInv, LiveMatches, Started
  <2>2. byParticipant[n] \in open => byParticipant[n] \notin seated /\ byParticipant[n] \in Conns
    BY <1>3, <1>4, <2>1 DEF Index, SeatInv, HostInv, Typed
  <2>3. Sits(x, n)' <=> Sits(x, n)
    BY <1>1, <2>2 DEF Sits
  <2> QED
    BY <1>1, <1>3, <2>3 DEF AllPlaced
<1> QED
  BY <1>6, <1>7, <1>8, <1>9, <1>10 DEF AllPlaced

\* A player that drops out of a running match leaves its seat for an entry,
\* or the match is over at once.
LEMMA DisconnectSeats ==
  ASSUME SeatInv, HostInv', Untroubled', NEW c \in Conns, Disconnect(c)
  PROVE  Exclusive' /\ AllPlaced'
<1> DEFINE m == seat[c]
           n == name[c]
<1>1. /\ c \in open /\ open' = open \ {c}
      /\ byParticipant' = NameReleased(c)
      /\ seat' = [seat EXCEPT ![c] = NoMatch]
      /\ UNCHANGED <<doubled, renamed, absent>>
  BY DEF Disconnect
<1>2. Untroubled /\ Index /\ SeatsAreOwn /\ EntriesAreOwn /\ Exclusive /\ AllPlaced
  BY <1>1 DEF SeatInv, HostInv, Orderly, Untroubled
<1>3. /\ byParticipant' \in [Names -> Conns \union {NoConn}]
      /\ \A x \in Names : byParticipant'[x] = IF x = n THEN NoConn ELSE byParticipant[x]
  BY <1>1 DEF NameReleased, SeatInv, HostInv, Typed
<1>4. \A x \in Names : byParticipant[x] = c <=> x = n
  BY <1>1, <1>2 DEF Index
<1>5. \A y \in MatchIds, x \in Names : x # n => (Sits(y, x)' <=> Sits(y, x))
  BY <1>1, <1>3, <1>4 DEF Sits, SeatInv, HostInv, Typed
<1>6. ASSUME NEW y, NEW x \in Names, x = n PROVE ~Sits(y, x)'
  <2>1. byParticipant'[x] = NoConn /\ NoConn \notin open'
    BY <1>1, <1>3, <1>6, Absent DEF SeatInv, HostInv, Typed
  <2> QED
    BY <2>1 DEF Sits
<1>7. \A y \in LiveMatches : y \in MatchIds /\ y # NoMatch /\ PlayersOf(y) \subseteq Names
  BY PlayersAreNames, Absent DEF SeatInv, HostInv, LiveMatches, Started
<1>8. m \in LiveMatches => n \in PlayersOf(m)
  BY <1>1, <1>2, <1>7 DEF SeatsAreOwn
<1>9. CASE m \in LiveMatches /\ graceAllowed
  <2>1. disconnected' = [disconnected EXCEPT ![n] = m] /\ UNCHANGED <<players, ended>>
    BY <1>9 DEF Disconnect, matches
  <2>2. LiveMatches' = LiveMatches /\ \A y \in LiveMatches : PlayersOf(y)' = PlayersOf(y)
    BY <2>1 DEF LiveMatches, Started, PlayersOf
  <2>3. ASSUME NEW y \in LiveMatches, NEW x \in PlayersOf(y)
        PROVE  Sits(y, x)' <=> disconnected'[x] # y
    <3>1. CASE x = n
      <4>1. y = m
        BY <1>2, <1>8, <1>9, <2>3, <3>1 DEF Exclusive
      <4>2. disconnected'[n] = m
        BY <1>7, <2>1, <2>3, <3>1 DEF SeatInv, HostInv, Typed
      <4> QED
        <5>1. x \in Names
          BY <1>7, <2>3
        <5>2. ~Sits(y, x)'
          BY <1>6, <3>1, <5>1
        <5> HIDE DEF n, m
        <5> QED
          BY <3>1, <4>1, <4>2, <5>2
    <3>2. CASE x # n
      <4>1. disconnected'[x] = disconnected[x]
        BY <1>7, <2>1, <3>2 DEF SeatInv, HostInv, Typed
      <4> QED
        BY <1>2, <1>5, <1>7, <3>2, <4>1 DEF AllPlaced
    <3> QED
      BY <3>1, <3>2
  <2>4. Exclusive'
    BY <1>2, <2>2 DEF Exclusive
  <2> QED
    BY <2>2, <2>3, <2>4 DEF AllPlaced
<1>10. CASE m \in LiveMatches /\ ~graceAllowed
  <2>1. EndMatch(m, "abandoned", disconnected)
    BY <1>10 DEF Disconnect
  <2>2. players' = players
    BY <2>1 DEF EndMatch
  <2>3. \A y \in LiveMatches \ {m} : \A x \in PlayersOf(y) :
          x \notin PlayersOf(m) => (Sits(y, x)' <=> Sits(y, x))
    BY <1>5, <1>7, <1>8, <1>10
  <2> HIDE DEF m
  <2> QED
    BY <1>2, <1>10, <2>1, <2>2, <2>3, EndMatchPlaced
<1>11. CASE m \notin LiveMatches
  <2>1. UNCHANGED <<players, ended, disconnected>>
    BY <1>11 DEF Disconnect, matches, grace
  <2>2. LiveMatches' = LiveMatches /\ \A y \in LiveMatches : PlayersOf(y)' = PlayersOf(y)
    BY <2>1 DEF LiveMatches, Started, PlayersOf
  <2>3. ASSUME NEW y \in LiveMatches, NEW x \in PlayersOf(y)
        PROVE  x # n
    <3>1. SUFFICES ASSUME x = n PROVE FALSE
      OBVIOUS
    <3>2. n \in Names /\ byParticipant[n] = c
      BY <1>4, <1>7, <2>3, <3>1
    <3>3. ~Sits(y, n)
      BY <1>11, <2>3, <3>2 DEF Sits
    <3>4. disconnected[n] = y /\ y # NoMatch
      BY <1>2, <1>7, <2>3, <3>1, <3>3 DEF AllPlaced
    <3> QED
      BY <1>2, <3>2, <3>4, Absent DEF EntriesAreOwn
  <2>4. Exclusive'
    BY <1>2, <2>2 DEF Exclusive
  <2> QED
    BY <1>2, <1>5, <1>7, <2>1, <2>2, <2>3, <2>4 DEF AllPlaced
<1> QED
  BY <1>9, <1>10, <1>11

LEMMA MatchStepSeats ==
  ASSUME SeatInv, HostInv', Untroubled', NEW c \in Conns, Dispute(c) \/ Leave(c)
  PROVE  Exclusive' /\ AllPlaced'
<1>1. CASE /\ seat[c] \in LiveMatches
           /\ EndMatch(seat[c], "desync", disconnected)
                \/ EndMatch(seat[c], "abandoned", disconnected)
           /\ UNCHANGED <<conns, doubled, renamed, absent>>
  BY <1>1, EndMatchSeats
<1>2. CASE UNCHANGED <<conns, challenges, issued, players, tick, ended, grace, history>>
  BY <1>2, StandingSeats DEF grace, history
<1> QED
  BY <1>1, <1>2 DEF Dispute, Leave

LEMMA ExpireSeats ==
  ASSUME SeatInv, HostInv', Untroubled', NEW n \in Names, Expire(n)
  PROVE  Exclusive' /\ AllPlaced'
<1> DEFINE m == disconnected[n]
           entries == [disconnected EXCEPT ![n] = NoMatch]
<1>1. UNCHANGED <<conns, doubled, renamed, absent>>
  BY DEF Expire
<1>2. Untroubled /\ EntriesAreOwn
  BY <1>1 DEF Untroubled, SeatInv, HostInv, Orderly
<1>3. CASE m \in LiveMatches
  <2>1. EndMatch(m, "abandoned", entries)
    BY <1>3 DEF Expire
  <2>2. m # NoMatch
    BY <1>3, Absent DEF LiveMatches, Started
  <2>3. \A x \in Names : entries[x] = disconnected[x] \/ x \in PlayersOf(m)
    BY <1>2, <2>2 DEF EntriesAreOwn, SeatInv, HostInv, Typed
  <2> HIDE DEF m, entries
  <2> QED
    BY <1>1, <1>3, <2>1, <2>3, EndMatchSeats
<1>4. CASE m \notin LiveMatches
  <2>1. m = NoMatch
    BY <1>2, <1>4 DEF EntriesAreOwn
  <2>2. disconnected' = disconnected /\ UNCHANGED <<players, ended>>
    BY <1>4, <2>1 DEF Expire, matches, SeatInv, HostInv, Typed
  <2> QED
    BY <1>1, <2>2, StandingSeats
<1> QED
  BY <1>3, <1>4

LEMMA PumpSeats ==
  ASSUME SeatInv, HostInv', Untroubled', NEW m \in MatchIds, Pump(m)
  PROVE  Exclusive' /\ AllPlaced'
<1>1. m \in LiveMatches /\ UNCHANGED <<conns, challenges, issued, doubled, renamed, absent>>
  BY DEF Pump, Due
<1>2. PICK reason \in Outcomes(m) :
        IF reason = "none"
        THEN /\ tick' = [tick EXCEPT ![m] = @ + 1]
             /\ UNCHANGED <<players, ended, settled, grace, owed>>
        ELSE EndMatch(m, reason, disconnected)
  BY DEF Pump
<1>3. CASE reason = "none"
  BY <1>1, <1>2, <1>3, StandingSeats DEF grace
<1>4. CASE reason # "none"
  BY <1>1, <1>2, <1>4, EndMatchSeats
<1> QED
  BY <1>3, <1>4

LEMMA NextSeats == ASSUME SeatInv, [Next]_vars PROVE SeatInv'
<1>1. HostInv'
  BY NextHost DEF SeatInv
<1> SUFFICES ASSUME Untroubled' PROVE Exclusive' /\ AllPlaced'
  BY <1>1 DEF SeatInv
<1>2. CASE Connect
  BY <1>1, <1>2, ConnectSeats
<1>3. ASSUME NEW c \in Conns, NEW n \in Names, Hello(c, n) PROVE Exclusive' /\ AllPlaced'
  BY <1>1, <1>3, HelloSeats
<1>4. ASSUME NEW c \in Conns, NEW ch \in challenges, NEW m \in MatchIds, Accept(c, ch, m)
      PROVE  Exclusive' /\ AllPlaced'
  BY <1>1, <1>4, AcceptSeats
<1>5. ASSUME NEW c \in Conns, Dispute(c) \/ Leave(c) PROVE Exclusive' /\ AllPlaced'
  BY <1>1, <1>5, MatchStepSeats
<1>6. ASSUME NEW c \in Conns, Disconnect(c) PROVE Exclusive' /\ AllPlaced'
  BY <1>1, <1>6, DisconnectSeats
<1>7. ASSUME NEW n \in Names, Expire(n) PROVE Exclusive' /\ AllPlaced'
  BY <1>1, <1>7, ExpireSeats
<1>8. ASSUME NEW m \in MatchIds, Pump(m) PROVE Exclusive' /\ AllPlaced'
  BY <1>1, <1>8, PumpSeats
<1>9. ASSUME \/ \E c \in Conns, n \in Names : Challenge(c, n)
             \/ \E c \in Conns, ch \in challenges : Decline(c, ch)
             \/ \E n \in Names : WindowPasses(n)
             \/ \E m \in MatchIds : Throw(m)
             \/ UNCHANGED vars
      PROVE  Exclusive' /\ AllPlaced'
  <2>1. UNCHANGED <<conns, players, ended, disconnected, doubled, renamed, absent>>
    BY <1>9 DEF Challenge, Decline, WindowPasses, Throw, vars, matches, grace, history
  <2> QED
    BY <2>1, StandingSeats
<1> QED
  BY <1>2, <1>3, <1>4, <1>5, <1>6, <1>7, <1>8, <1>9 DEF Next, Handlers, Frame

LEMMA InitSeats == Init => SeatInv
<1> SUFFICES ASSUME Init PROVE SeatInv
  OBVIOUS
<1>1. LiveMatches = {}
  BY DEF Init, LiveMatches, Started
<1> QED
  BY <1>1, InitHost DEF SeatInv, Exclusive, AllPlaced

\* A player of a running match has its seat or an entry for that match, and
\* never both, whatever connections and matches come and go, as long as nobody
\* plays two matches at once, says hello twice or begins a match while away.
THEOREM PlayersAreAccountedFor == Spec => []EveryPlayerIsAccountedFor
<1>1. SeatInv => EveryPlayerIsAccountedFor
  <2> SUFFICES ASSUME SeatInv, Untroubled, NEW m \in LiveMatches, NEW i \in {1, 2}
               PROVE  Sits(m, players[m][i]) # (disconnected[players[m][i]] = m)
    BY DEF EveryPlayerIsAccountedFor, Untroubled, Sits
  <2>1. players[m][i] \in PlayersOf(m)
    BY TwoPlayers DEF SeatInv, HostInv, LiveMatches
  <2> QED
    BY <2>1 DEF SeatInv, AllPlaced, Sits
<1>2. SeatInv /\ [Next]_vars => SeatInv'
  BY NextSeats
<1> QED
  BY <1>1, <1>2, InitSeats, PTL DEF Spec
-----------------------------------------------------------------------------
(* Ended matches wait for their last checkpoint, and every variable keeps  *)
(* its type.  Three kinds of step touch the queue of ended matches, or     *)
(* none does.                                                              *)

QueueTyped == settled \in Seq(MatchIds) /\ Len(settled) <= SettledLimit

\* m ends, and joins the queue.
Joins(m) ==
  /\ m \in LiveMatches
  /\ settled' = Retained(m)
  /\ \E reason \in Endings \ {"none"} : ended' = [ended EXCEPT ![m] = reason]

\* A match that waits is disputed over c.
Departs(c) ==
  /\ c \in open /\ UNCHANGED ended
  /\ \E i \in DOMAIN settled : settled[i] = seat[c] /\ settled' = RemoveAt(settled, i)

QueueSteps ==
  \/ UNCHANGED <<settled, ended>>
  \/ \E m \in MatchIds : Joins(m)
  \/ \E c \in Conns : Departs(c)

LEMMA EndMatchJoins ==
  ASSUME NEW m \in LiveMatches, NEW reason \in Endings \ {"none"}, NEW entries,
         EndMatch(m, reason, entries)
  PROVE  QueueSteps
<1>1. m \in MatchIds
  BY DEF LiveMatches, Started
<1> QED BY <1>1 DEF EndMatch, QueueSteps, Joins

LEMMA StepsOfQueue == ASSUME [Next]_vars PROVE QueueSteps
<1>1. ASSUME NEW c \in Conns, Frame(c) PROVE QueueSteps
  <2>1. CASE \E n \in Names : Hello(c, n) \/ Challenge(c, n)
    BY <2>1 DEF Hello, Challenge, matches, QueueSteps
  <2>2. CASE \E ch \in challenges : Decline(c, ch) \/ \E m \in MatchIds : Accept(c, ch, m)
    BY <2>2 DEF Decline, Accept, matches, QueueSteps
  <2>3. CASE Dispute(c)
    <3>1. CASE seat[c] \in LiveMatches /\ EndMatch(seat[c], "desync", disconnected)
      BY <3>1, EndMatchJoins DEF Endings
    <3>2. CASE /\ \E i \in DOMAIN settled :
                    settled[i] = seat[c] /\ settled' = RemoveAt(settled, i)
               /\ UNCHANGED ended /\ c \in open
      BY <3>2 DEF QueueSteps, Departs
    <3> QED BY <2>3, <3>1, <3>2 DEF Dispute
  <2>4. CASE Leave(c)
    BY <2>4, EndMatchJoins DEF Leave, Endings
  <2> QED BY <1>1, <2>1, <2>2, <2>3, <2>4 DEF Frame
<1>2. ASSUME NEW c \in Conns, Disconnect(c) PROVE QueueSteps
  <2>1. CASE seat[c] \in LiveMatches /\ ~graceAllowed
    <3>1. EndMatch(seat[c], "abandoned", disconnected)
      BY <1>2, <2>1 DEF Disconnect
    <3> QED BY <2>1, <3>1, EndMatchJoins DEF Endings
  <2>2. CASE ~(seat[c] \in LiveMatches /\ ~graceAllowed)
    <3>1. UNCHANGED matches
      BY <1>2, <2>2 DEF Disconnect
    <3> QED BY <3>1 DEF matches, QueueSteps
  <2> QED BY <2>1, <2>2
<1>3. ASSUME NEW n \in Names, WindowPasses(n) \/ Expire(n) PROVE QueueSteps
  <2>1. CASE disconnected[n] \in LiveMatches /\ Expire(n)
    <3>1. EndMatch(disconnected[n], "abandoned", [disconnected EXCEPT ![n] = NoMatch])
      BY <2>1 DEF Expire
    <3> QED BY <2>1, <3>1, EndMatchJoins DEF Endings
  <2>2. CASE ~(disconnected[n] \in LiveMatches /\ Expire(n))
    BY <1>3, <2>2 DEF WindowPasses, Expire, matches, QueueSteps
  <2> QED BY <2>1, <2>2
<1>4. ASSUME NEW m \in MatchIds, Pump(m) PROVE QueueSteps
  <2>1. PICK reason \in Outcomes(m) :
          IF reason = "none"
          THEN /\ tick' = [tick EXCEPT ![m] = @ + 1]
               /\ UNCHANGED <<players, ended, settled, grace, owed>>
          ELSE EndMatch(m, reason, disconnected)
    BY <1>4 DEF Pump
  <2>2. CASE reason = "none"
    BY <2>1, <2>2 DEF QueueSteps
  <2>3. CASE reason # "none"
    <3>1. m \in LiveMatches /\ reason \in Endings \ {"none"}
      BY <1>4, <2>3 DEF Pump, Due, Outcomes, Endings
    <3> QED BY <2>1, <2>3, <3>1, EndMatchJoins
  <2> QED BY <2>2, <2>3
<1>5. CASE Connect \/ (\E m \in MatchIds : Throw(m)) \/ UNCHANGED vars
  BY <1>5 DEF Connect, Throw, vars, matches, QueueSteps
<1> QED BY <1>1, <1>2, <1>3, <1>4, <1>5 DEF Next, Handlers

\* A full queue makes room at its head.
LEMMA JoinKeepsOrder ==
  ASSUME QueueTyped, ended \in [MatchIds -> Endings], NEW m \in MatchIds, Joins(m)
  PROVE  /\ QueueTyped'
         /\ Len(settled') > 0 /\ settled'[Len(settled')] = m
         /\ \A x \in MatchIds : ended'[x] # ended[x] <=> x = m
         /\ \A x \in Waiting \ Waiting' : x = Head(settled) /\ Len(settled') = SettledLimit
<1> DEFINE all == Append(settled, m)
<1>1. SettledLimit \in Nat \ {0} /\ Len(settled) \in Nat
      /\ settled \in Seq(MatchIds) /\ Len(settled) <= SettledLimit
  BY HostAssumption DEF QueueTyped
<1>2. /\ all \in Seq(MatchIds) /\ Len(all) = Len(settled) + 1
      /\ all[Len(settled) + 1] = m /\ \A i \in 1 .. Len(settled) : all[i] = settled[i]
  BY <1>1
<1>3. \A x \in MatchIds : ended'[x] # ended[x] <=> x = m
  <2>1. PICK reason \in Endings \ {"none"} : ended' = [ended EXCEPT ![m] = reason]
    BY DEF Joins
  <2>2. ended[m] = "none"
    BY DEF Joins, LiveMatches
  <2> QED BY <2>1, <2>2
<1>4. CASE Len(all) > SettledLimit
  <2>1. settled' = Tail(all)
    BY <1>4 DEF Joins, Retained
  <2>2. /\ settled' \in Seq(MatchIds) /\ Len(settled') = Len(settled)
        /\ \A i \in 1 .. Len(settled) : settled'[i] = all[i + 1]
    BY <1>1, <1>2, <2>1
  <2>3. Len(settled) = SettledLimit
    BY <1>1, <1>2, <1>4
  <2>4. ASSUME NEW x \in Waiting \ Waiting' PROVE x = Head(settled)
    <3>1. PICK i \in 1 .. Len(settled) : x = settled[i]
      BY DEF Waiting
    <3>2. CASE i = 1
      BY <1>1, <2>3, <3>1, <3>2
    <3>3. CASE i # 1
      <4>1. i - 1 \in 1 .. Len(settled') /\ settled'[i - 1] = settled[i]
        BY <1>1, <1>2, <2>2, <3>1, <3>3
      <4> QED BY <2>4, <3>1, <4>1 DEF Waiting
    <3> QED BY <3>2, <3>3
  <2>5. settled'[Len(settled')] = m
    BY <1>1, <1>2, <2>2, <2>3
  <2> QED BY <1>1, <1>3, <2>2, <2>3, <2>4, <2>5 DEF QueueTyped
<1>5. CASE ~(Len(all) > SettledLimit)
  <2>1. settled' = all
    BY <1>5 DEF Joins, Retained
  <2>2. \A x \in Waiting : x \in Waiting'
    BY <1>1, <1>2, <2>1 DEF Waiting
  <2> QED BY <1>1, <1>2, <1>3, <1>5, <2>1, <2>2 DEF QueueTyped
<1> QED BY <1>4, <1>5

LEMMA Joined ==
  ASSUME NEW S, NEW a \in Seq(S), NEW b \in Seq(S)
  PROVE  /\ Len(a \o b) = Len(a) + Len(b)
         /\ \A k \in 1 .. Len(a) : (a \o b)[k] = a[k]
         /\ \A k \in 1 .. Len(b) : (a \o b)[Len(a) + k] = b[k]
OBVIOUS

\* Only what is disputed departs.
LEMMA DepartLeavesOthers ==
  ASSUME QueueTyped, NEW c \in Conns, Departs(c)
  PROVE  QueueTyped' /\ \A x \in Waiting \ Waiting' : x = seat[c]
<1>1. PICK i \in DOMAIN settled : settled[i] = seat[c] /\ settled' = RemoveAt(settled, i)
  BY DEF Departs
<1>2. settled \in Seq(MatchIds) /\ Len(settled) \in Nat /\ i \in 1 .. Len(settled)
      /\ Len(settled) <= SettledLimit /\ SettledLimit \in Nat
  BY HostAssumption DEF QueueTyped
<1> DEFINE front == SubSeq(settled, 1, i - 1)
           back == SubSeq(settled, i + 1, Len(settled))
<1>3. /\ front \in Seq(MatchIds) /\ Len(front) = i - 1
      /\ \A k \in 1 .. i - 1 : front[k] = settled[k]
  BY <1>2
<1>4. /\ back \in Seq(MatchIds) /\ Len(back) = Len(settled) - i
      /\ \A k \in 1 .. Len(settled) - i : back[k] = settled[i + k]
  BY <1>2
<1>5. settled' = front \o back
  BY <1>1 DEF RemoveAt
<1> HIDE DEF front, back
<1>6. settled' \in Seq(MatchIds)
  BY <1>3, <1>4, <1>5
<1>7. /\ Len(settled') = Len(front) + Len(back)
      /\ \A k \in 1 .. Len(front) : settled'[k] = front[k]
      /\ \A k \in 1 .. Len(back) : settled'[Len(front) + k] = back[k]
  <2>1. front \in Seq(MatchIds) /\ back \in Seq(MatchIds)
    BY <1>3, <1>4
  <2>2. /\ Len(front \o back) = Len(front) + Len(back)
        /\ \A k \in 1 .. Len(front) : (front \o back)[k] = front[k]
        /\ \A k \in 1 .. Len(back) : (front \o back)[Len(front) + k] = back[k]
    BY ONLY <2>1, Joined
  <2> QED BY ONLY <2>2, <1>5
<1>8. Len(settled') = Len(settled) - 1
  BY <1>2, <1>3, <1>4, <1>7
<1>9. \A k \in 1 .. i - 1 : settled'[k] = settled[k]
  BY <1>3, <1>7
<1>10. ASSUME NEW k \in 1 .. Len(settled) - i PROVE settled'[i - 1 + k] = settled[i + k]
  <2>1. k \in 1 .. Len(back) /\ Len(front) = i - 1
    BY <1>3, <1>4
  <2>2. settled'[i - 1 + k] = back[k]
    BY <1>7, <2>1
  <2> QED BY <1>4, <2>2
<1>11. ASSUME NEW x \in Waiting \ Waiting' PROVE x = seat[c]
  <2>1. PICK k \in 1 .. Len(settled) : x = settled[k]
    BY DEF Waiting
  <2>2. CASE k < i
    <3>1. k \in 1 .. Len(settled') /\ settled'[k] = x
      BY <1>2, <1>8, <1>9, <2>1, <2>2
    <3> QED BY <1>11, <3>1 DEF Waiting
  <2>3. CASE k > i
    <3>1. k - i \in 1 .. Len(settled) - i /\ i - 1 + (k - i) = k - 1 /\ i + (k - i) = k
      BY <1>2, <2>3
    <3>2. k - 1 \in 1 .. Len(settled') /\ settled'[k - 1] = x
      <4>1. settled'[i - 1 + (k - i)] = settled[i + (k - i)]
        BY <1>10, <3>1
      <4> QED BY <1>2, <1>8, <2>1, <2>3, <3>1, <4>1
    <3> QED BY <1>11, <3>2 DEF Waiting
  <2>4. CASE k = i
    BY <1>1, <2>1, <2>4
  <2> QED BY <1>2, <2>2, <2>3, <2>4
<1> QED BY <1>2, <1>6, <1>8, <1>11 DEF QueueTyped

QueueInv == HostInv /\ QueueTyped

LEMMA InitQueue == Init => QueueInv
BY InitHost, HostAssumption DEF Init, QueueInv, QueueTyped

LEMMA NextQueue ==
  ASSUME QueueInv, [Next]_vars
  PROVE  /\ QueueInv'
         /\ \A m \in MatchIds :
              /\ m \in LiveMatches /\ ended'[m] # "none" =>
                   Len(settled') > 0 /\ settled'[Len(settled')] = m
              /\ m \in Waiting \ Waiting' =>
                   \/ ended' = ended /\ \E c \in open : seat[c] = m
                   \/ ended' # ended /\ m = Head(settled) /\ Len(settled') = SettledLimit
<1>1. HostInv' /\ QueueTyped /\ ended \in [MatchIds -> Endings]
  BY NextHost DEF QueueInv, HostInv, Typed
<1>2. CASE UNCHANGED <<settled, ended>>
  BY <1>1, <1>2 DEF QueueInv, QueueTyped, Waiting, LiveMatches
<1>3. ASSUME NEW m \in MatchIds, Joins(m)
      PROVE  /\ QueueTyped'
             /\ \A x \in MatchIds :
                  /\ x \in LiveMatches /\ ended'[x] # "none" =>
                       Len(settled') > 0 /\ settled'[Len(settled')] = x
                  /\ x \in Waiting \ Waiting' =>
                       ended' # ended /\ x = Head(settled) /\ Len(settled') = SettledLimit
  BY <1>1, <1>3, JoinKeepsOrder DEF LiveMatches
<1>4. ASSUME NEW c \in Conns, Departs(c)
      PROVE  /\ QueueTyped' /\ ended' = ended /\ c \in open
             /\ \A x \in Waiting \ Waiting' : seat[c] = x
  BY <1>1, <1>4, DepartLeavesOthers DEF Departs
<1>5. CASE \E c \in Conns : Departs(c)
  BY <1>1, <1>4, <1>5 DEF QueueInv, LiveMatches
<1>6. CASE \E m \in MatchIds : Joins(m)
  BY <1>1, <1>3, <1>6 DEF QueueInv
<1> QED BY <1>2, <1>5, <1>6, StepsOfQueue DEF QueueSteps

\* host.ts, retain and onCheckpoint.  Whatever ends a match - a tick, a desync,
\* a leave, a drop, a window that closed - it is then the youngest that waits for
\* its last checkpoint, and one that waits is dropped only for a dispute on one of
\* its own seats or, being the oldest, for room.
THEOREM FinalHashesAreHeld == Spec => FinalHashesWait
<1>1. QueueInv /\ [Next]_vars =>
        [up' => \A m \in MatchIds :
           /\ m \in LiveMatches /\ ended'[m] # "none" =>
                Len(settled') > 0 /\ settled'[Len(settled')] = m
           /\ m \in Waiting \ Waiting' =>
                \/ ended' = ended /\ \E c \in open : seat[c] = m
                \/ ended' # ended /\ m = Head(settled) /\ Len(settled') = SettledLimit]_vars
  BY NextQueue
<1>2. QueueInv /\ [Next]_vars => QueueInv'
  BY NextQueue
<1> QED BY InitQueue, <1>1, <1>2, PTL DEF Spec, FinalHashesWait

-----------------------------------------------------------------------------
(* Every variable keeps its type.  That only returns of somebody are owed  *)
(* needs a little more: whoever is seated has said hello.                  *)

Counted ==
  /\ accepted <= MaxConns /\ issued <= MaxChallenges
  /\ tick \in [MatchIds -> 0 .. StepLimit - 1]

Entries ==
  /\ \A n \in windowClosed : disconnected[n] # NoMatch
  /\ owed \subseteq [name : Names, match : MatchIds]

Flags ==
  graceAllowed \in BOOLEAN /\ up \in BOOLEAN /\ doubled \in BOOLEAN /\ absent \in BOOLEAN

NamesFirst ==
  /\ \A c \in Conns : seat[c] # NoMatch => name[c] # NoName
  /\ \A n \in Names : /\ byParticipant[n] <= accepted
                      /\ byParticipant[n] \in open => name[byParticipant[n]] # NoName

TypeInv == QueueInv /\ Counted /\ Entries /\ Flags /\ NamesFirst

LEMMA TypeInvIsEnough == TypeInv => TypeOK
<1> SUFFICES ASSUME TypeInv PROVE TypeOK
  OBVIOUS
<1>1. Typed /\ ClosedAreBlank /\ QueueTyped
  BY DEF TypeInv, QueueInv, HostInv
<1>2. /\ accepted \in 0 .. MaxConns /\ issued \in 0 .. MaxChallenges
      /\ open \subseteq 1 .. accepted
  BY <1>1, HostAssumption DEF TypeInv, Counted, Typed, ClosedAreBlank, Conns
<1>3. windowClosed \subseteq {n \in Names : disconnected[n] # NoMatch}
  BY <1>1 DEF TypeInv, Entries, Typed
<1>4. {doubled, renamed, absent} \subseteq BOOLEAN
  BY <1>1 DEF TypeInv, Flags, Typed
<1> QED
  BY <1>1, <1>2, <1>3, <1>4
     DEF TypeInv, Counted, Entries, Flags, Typed, QueueTyped, Endings, TypeOK

LEMMA InitTypes == Init => TypeInv
<1> SUFFICES ASSUME Init PROVE TypeInv
  OBVIOUS
<1>1. Counted
  BY HostAssumption DEF Init, Counted
<1>2. Entries /\ Flags
  BY DEF Init, Entries, Flags
<1>3. NamesFirst
  BY DEF Init, NamesFirst, NoConn
<1> QED BY <1>1, <1>2, <1>3, InitQueue DEF TypeInv

\* What endMatch leaves of the grace entries and of the debts.
LEMMA EndMatchKeepsTypes ==
  ASSUME Typed, Counted, Entries, NEW m \in LiveMatches,
         NEW reason \in Endings \ {"none"}, NEW entries, EndMatch(m, reason, entries)
  PROVE  Entries' /\ tick' = tick
BY DEF EndMatch, Entries

LEMMA NextCounted == ASSUME TypeInv, [Next]_vars PROVE Counted'
<1> USE DEF TypeInv, QueueInv, HostInv
<1>1. accepted \in Nat /\ issued \in Nat /\ StepLimit \in Nat \ {0} /\ Counted
      /\ MaxConns \in Nat /\ MaxChallenges \in Nat
  BY HostAssumption DEF Typed
<1> HIDE DEF TypeInv, QueueInv, HostInv
<1>2. ASSUME NEW m \in MatchIds, Pump(m) PROVE Counted'
  <2>1. UNCHANGED <<accepted, issued>>
    BY <1>2 DEF Pump, conns
  <2>2. PICK reason \in Outcomes(m) :
          IF reason = "none"
          THEN /\ tick' = [tick EXCEPT ![m] = @ + 1]
               /\ UNCHANGED <<players, ended, settled, grace, owed>>
          ELSE EndMatch(m, reason, disconnected)
    BY <1>2 DEF Pump
  <2>3. CASE reason = "none"
    <3>1. tick[m] + 1 < StepLimit
      BY <1>1, <2>3 DEF Outcomes, Counted
    <3> QED BY <1>1, <2>1, <2>2, <2>3, <3>1 DEF Counted
  <2>4. CASE reason # "none"
    BY <1>1, <2>1, <2>2, <2>4 DEF EndMatch, Counted
  <2> QED BY <2>3, <2>4
<1>3. CASE Connect
  BY <1>1, <1>3 DEF Connect, Counted, matches
<1>4. ASSUME NEW c \in Conns, NEW n \in Names, Challenge(c, n) PROVE Counted'
  BY <1>1, <1>4 DEF Challenge, Counted, conns, matches
<1>5. ASSUME NEW c \in Conns,
             \/ \E n \in Names : Hello(c, n)
             \/ \E ch \in challenges : Decline(c, ch) \/ \E m \in MatchIds : Accept(c, ch, m)
             \/ Dispute(c) \/ Leave(c) \/ Disconnect(c)
      PROVE  UNCHANGED <<accepted, issued, tick>>
  BY <1>5 DEF Hello, Decline, Accept, Dispute, Leave, Disconnect, EndMatch, conns, matches
<1>6. ASSUME NEW n \in Names, WindowPasses(n) \/ Expire(n)
      PROVE  UNCHANGED <<accepted, issued, tick>>
  BY <1>6 DEF WindowPasses, Expire, EndMatch, conns, matches
<1>7. CASE (\E m \in MatchIds : Throw(m)) \/ UNCHANGED vars
  BY <1>1, <1>7 DEF Throw, vars, conns, matches, Counted
<1>8. ASSUME UNCHANGED <<accepted, issued, tick>> PROVE Counted'
  BY <1>1, <1>8 DEF Counted
<1> QED BY <1>2, <1>3, <1>4, <1>5, <1>6, <1>7, <1>8 DEF Next, Handlers, Frame

LEMMA NextFlags == ASSUME TypeInv, [Next]_vars PROVE Flags'
<1>1. Flags
  BY DEF TypeInv
<1>2. UNCHANGED <<doubled, absent>> \/ (doubled' \in BOOLEAN /\ absent' \in BOOLEAN)
  <2>1. ASSUME NEW c \in Conns, Frame(c)
        PROVE  UNCHANGED <<doubled, absent>> \/ (doubled' \in BOOLEAN /\ absent' \in BOOLEAN)
    <3>1. ASSUME NEW ch \in challenges, NEW m \in MatchIds, Accept(c, ch, m)
          PROVE  doubled' \in BOOLEAN /\ absent' \in BOOLEAN
      BY <3>1, Zenon DEF Accept
    <3>2. CASE \E n \in Names : Hello(c, n) \/ Challenge(c, n)
      BY <3>2 DEF Hello, Challenge, history
    <3>3. CASE (\E ch \in challenges : Decline(c, ch)) \/ Dispute(c) \/ Leave(c)
      BY <3>3 DEF Decline, Dispute, Leave, history
    <3> QED BY <2>1, <3>1, <3>2, <3>3 DEF Frame
  <2>2. CASE Connect
    BY <2>2 DEF Connect, history
  <2>3. CASE \E c \in Conns : Disconnect(c)
    BY <2>3 DEF Disconnect
  <2>4. CASE \E n \in Names : WindowPasses(n) \/ Expire(n)
    BY <2>4 DEF WindowPasses, Expire, history
  <2>5. CASE \E m \in MatchIds : Pump(m) \/ Throw(m)
    BY <2>5 DEF Pump, Throw, history
  <2>6. CASE UNCHANGED vars
    BY <2>6 DEF vars, history
  <2> QED BY <2>1, <2>2, <2>3, <2>4, <2>5, <2>6 DEF Next, Handlers
<1>3. graceAllowed' = graceAllowed /\ (up' = up \/ up' = FALSE)
  BY DEF Next, Throw, server, vars
<1> QED BY <1>1, <1>2, <1>3 DEF Flags

LEMMA NextEntries == ASSUME TypeInv, [Next]_vars PROVE Entries'
<1>1. Typed /\ Counted /\ Entries /\ NamesFirst
  BY DEF TypeInv, QueueInv, HostInv
<1>2. /\ disconnected \in [Names -> MatchIds \union {NoMatch}]
      /\ windowClosed \subseteq Names
      /\ \A m \in LiveMatches : m \in MatchIds /\ m # NoMatch
  BY <1>1, Absent DEF Typed, LiveMatches, Started
<1>3. ASSUME NEW m \in LiveMatches, NEW reason \in Endings \ {"none"}, NEW entries,
             EndMatch(m, reason, entries)
      PROVE  Entries'
  BY <1>1, <1>3, EndMatchKeepsTypes
<1>4. ASSUME UNCHANGED <<grace, owed>> PROVE Entries'
  BY <1>1, <1>4 DEF Entries, grace
<1>5. ASSUME NEW c \in Conns, NEW n \in Names, Hello(c, n) PROVE Entries'
  <2>1. owed' \subseteq owed
    BY <1>5 DEF Hello
  <2>2. disconnected' = [disconnected EXCEPT ![n] = NoMatch]
        /\ windowClosed' = windowClosed \ {n}
    BY <1>5 DEF Hello
  <2> QED BY <1>1, <1>2, <2>1, <2>2 DEF Entries
<1>6. ASSUME NEW c \in Conns,
             \/ \E n \in Names : Challenge(c, n)
             \/ \E ch \in challenges : Decline(c, ch) \/ \E m \in MatchIds : Accept(c, ch, m)
      PROVE  UNCHANGED <<grace, owed>>
  BY <1>6 DEF Challenge, Decline, Accept, grace, history
<1>7. ASSUME NEW c \in Conns, Dispute(c) PROVE Entries'
  <2>1. CASE seat[c] \in LiveMatches /\ EndMatch(seat[c], "desync", disconnected)
    BY <1>3, <2>1 DEF Endings
  <2>2. CASE UNCHANGED <<grace, history>>
    BY <1>4, <2>2 DEF history
  <2> QED BY <1>7, <2>1, <2>2 DEF Dispute
<1>8. ASSUME NEW c \in Conns, Leave(c) PROVE Entries'
  BY <1>3, <1>8 DEF Leave, Endings
<1>9. ASSUME NEW c \in Conns, Disconnect(c) PROVE Entries'
  <2>1. CASE seat[c] \in LiveMatches /\ graceAllowed
    <3>1. name[c] \in Names
      BY <1>1, <1>2, <2>1 DEF NamesFirst, Typed
    <3>2. /\ disconnected' = [disconnected EXCEPT ![name[c]] = seat[c]]
          /\ windowClosed' = windowClosed \ {name[c]}
          /\ owed' = owed \union {[name |-> name[c], match |-> seat[c]]}
      BY <1>9, <2>1 DEF Disconnect
    <3> QED BY <1>1, <1>2, <2>1, <3>1, <3>2 DEF Entries
  <2>2. CASE seat[c] \in LiveMatches /\ ~graceAllowed
    <3>1. EndMatch(seat[c], "abandoned", disconnected)
      BY <1>9, <2>2 DEF Disconnect
    <3> QED BY <1>3, <2>2, <3>1 DEF Endings
  <2>3. CASE seat[c] \notin LiveMatches
    <3>1. UNCHANGED <<grace, owed>>
      BY <1>9, <2>3 DEF Disconnect
    <3> QED BY <1>4, <3>1
  <2> QED BY <2>1, <2>2, <2>3
<1>10. ASSUME NEW n \in Names, WindowPasses(n) PROVE Entries'
  BY <1>1, <1>10 DEF WindowPasses, Entries, history
<1>11. ASSUME NEW n \in Names, Expire(n) PROVE Entries'
  <2>1. CASE disconnected[n] \in LiveMatches
    <3>1. EndMatch(disconnected[n], "abandoned", [disconnected EXCEPT ![n] = NoMatch])
      BY <1>11, <2>1 DEF Expire
    <3> QED BY <1>3, <2>1, <3>1 DEF Endings
  <2>2. CASE disconnected[n] \notin LiveMatches
    <3>1. /\ disconnected' = [disconnected EXCEPT ![n] = NoMatch]
          /\ windowClosed' = windowClosed \ {n} /\ owed' = owed
      BY <1>11, <2>2 DEF Expire
    <3> QED BY <1>1, <1>2, <3>1 DEF Entries
  <2> QED BY <2>1, <2>2
<1>12. ASSUME NEW m \in MatchIds, Pump(m) PROVE Entries'
  <2>1. PICK reason \in Outcomes(m) :
          IF reason = "none"
          THEN /\ tick' = [tick EXCEPT ![m] = @ + 1]
               /\ UNCHANGED <<players, ended, settled, grace, owed>>
          ELSE EndMatch(m, reason, disconnected)
    BY <1>12 DEF Pump
  <2>2. CASE reason = "none"
    BY <1>4, <2>1, <2>2
  <2>3. CASE reason # "none"
    <3>1. m \in LiveMatches /\ reason \in Endings \ {"none"}
      BY <1>12, <2>3 DEF Pump, Due, Outcomes, Endings
    <3> QED BY <1>3, <2>1, <2>3, <3>1
  <2> QED BY <2>2, <2>3
<1>13. CASE Connect \/ (\E m \in MatchIds : Throw(m)) \/ UNCHANGED vars
  <2>1. UNCHANGED <<grace, owed>>
    BY <1>13 DEF Connect, Throw, vars, grace, history
  <2> QED BY <1>4, <2>1
<1> QED
  BY <1>4, <1>5, <1>6, <1>7, <1>8, <1>9, <1>10, <1>11, <1>12, <1>13
     DEF Next, Handlers, Frame

LEMMA NextNames == ASSUME TypeInv, [Next]_vars PROVE NamesFirst'
<1>1. Typed /\ NamesFirst /\ ClosedAreBlank
  BY DEF TypeInv, QueueInv, HostInv
<1>2. /\ accepted \in Nat /\ open \subseteq Conns /\ \A c \in Conns : c \in Nat \ {0}
      /\ name \in [Conns -> Names \union {NoName}]
      /\ seat \in [Conns -> MatchIds \union {NoMatch}]
      /\ byParticipant \in [Names -> Conns \union {NoConn}]
      /\ NoName \notin Names /\ NoConn \notin Conns /\ NoConn = 0
  BY <1>1, Absent DEF Typed, Conns, NoConn
<1>3. ASSUME UNCHANGED conns PROVE NamesFirst'
  BY <1>1, <1>3 DEF NamesFirst, conns
<1>4. CASE Connect
  <2>1. /\ accepted' = accepted + 1 /\ open' = open \union {accepted + 1}
        /\ UNCHANGED <<name, seat, byParticipant>>
    BY <1>4 DEF Connect
  <2>2. ASSUME NEW n \in Names
        PROVE  /\ byParticipant[n] <= accepted + 1 /\ byParticipant[n] # accepted + 1
               /\ byParticipant[n] \in open => name[byParticipant[n]] # NoName
    BY <1>1, <1>2 DEF NamesFirst
  <2> QED BY <1>1, <1>2, <2>1, <2>2 DEF NamesFirst
<1>5. ASSUME NEW c \in Conns, NEW n \in Names, Hello(c, n) PROVE NamesFirst'
  <2>1. /\ c \in open /\ name' = [name EXCEPT ![c] = n]
        /\ byParticipant' = [byParticipant EXCEPT ![n] = c]
        /\ UNCHANGED <<accepted, open>>
        /\ \A x \in Conns : x = c \/ seat'[x] = seat[x]
    BY <1>2, <1>5 DEF Hello
  <2>2. c <= accepted
    BY <1>1, <2>1 DEF ClosedAreBlank
  <2> QED BY <1>1, <1>2, <2>1, <2>2 DEF NamesFirst
<1>6. ASSUME NEW c \in Conns, NEW ch \in challenges, NEW m \in MatchIds, Accept(c, ch, m)
      PROVE  NamesFirst'
  <2>1. ch.from \in Names /\ ch.to \in Names
    BY <1>1 DEF Typed
  <2>2. /\ UNCHANGED <<open, accepted, name, byParticipant>>
        /\ \A x \in Conns :
             \/ seat'[x] = seat[x]
             \/ x \in open /\ x \in {byParticipant[ch.from], byParticipant[ch.to]}
    BY <1>6 DEF Accept
  <2> QED BY <1>1, <1>2, <2>1, <2>2 DEF NamesFirst
<1>7. ASSUME NEW c \in Conns, Disconnect(c) PROVE NamesFirst'
  <2>1. /\ open' = open \ {c} /\ byParticipant' = NameReleased(c)
        /\ name' = [name EXCEPT ![c] = NoName] /\ seat' = [seat EXCEPT ![c] = NoMatch]
        /\ UNCHANGED accepted
    BY <1>7 DEF Disconnect
  <2>2. \A n \in Names : byParticipant'[n] \in {byParticipant[n], NoConn}
    BY <1>2, <2>1 DEF NameReleased
  <2> QED BY <1>1, <1>2, <2>1, <2>2 DEF NamesFirst
<1>8. ASSUME NEW c \in Conns,
             \/ \E n \in Names : Challenge(c, n)
             \/ \E ch \in challenges : Decline(c, ch)
             \/ Dispute(c) \/ Leave(c)
      PROVE  UNCHANGED conns
  BY <1>8 DEF Challenge, Decline, Dispute, Leave
<1>9. CASE \/ \E n \in Names : WindowPasses(n) \/ Expire(n)
           \/ \E m \in MatchIds : Pump(m) \/ Throw(m)
           \/ UNCHANGED vars
  <2>1. UNCHANGED conns
    BY <1>9 DEF WindowPasses, Expire, Pump, Throw, vars
  <2> QED BY <1>3, <2>1
<1> QED BY <1>3, <1>4, <1>5, <1>6, <1>7, <1>8, <1>9 DEF Next, Handlers, Frame

\* Whatever connections, names, challenges and matches come and go, every
\* variable of the host keeps its type: nobody but a participant holds a seat, an
\* entry or a debt, no match runs past its step limit, and the queue of ended
\* matches never outgrows SETTLED_MATCH_LIMIT.
THEOREM TypeCorrect == Spec => []TypeOK
<1>1. TypeInv /\ [Next]_vars => TypeInv'
  <2> SUFFICES ASSUME TypeInv, [Next]_vars PROVE TypeInv'
    OBVIOUS
  <2>1. QueueInv'
    BY NextQueue DEF TypeInv
  <2> QED BY <2>1, NextCounted, NextEntries, NextFlags, NextNames DEF TypeInv
<1> QED BY <1>1, InitTypes, TypeInvIsEnough, PTL DEF Spec
=============================================================================
