----------------------------- MODULE MatchHost ------------------------------
(***************************************************************************)
(* The match server's control plane (packages/server/src/host.ts): names,  *)
(* challenges, seats, the reconnection grace window, and the life of a     *)
(* match from its challenge to its last checkpoint.  What a tick contains  *)
(* is LockstepMatch's business; here a match only moves on or ends.        *)
(*                                                                         *)
(* Every handler runs to completion on one thread, so each is one action.  *)
(* The clock may pass a deadline or a grace window between any two of      *)
(* them, connections drop when they like, and participants send any verb   *)
(* at any time.  A connection id is used once.                             *)
(***************************************************************************)
EXTENDS Integers, SequencesExt

CONSTANTS
  Names,          \* participants
  NoName,         \* no participant
  StepLimit,      \* ticks a match may last
  SettledLimit,   \* SETTLED_MATCH_LIMIT
  MaxConns,       \* bound: connections accepted
  MaxChallenges,  \* bound: challenges issued
  MaxMatches      \* bound: matches started

ASSUME HostAssumption ==
  /\ NoName \notin Names
  /\ StepLimit \in Nat \ {0} /\ SettledLimit \in Nat \ {0}
  /\ MaxConns \in Nat /\ MaxChallenges \in Nat /\ MaxMatches \in Nat

Conns == 1 .. MaxConns   \* the transport numbers them as they come
NoConn == 0
MatchIds == 1 .. MaxMatches
NoMatch == 0
ChallengeIds == 1 .. MaxChallenges

VARIABLES
  open,           \* connections that are peers now
  accepted,       \* connections there have ever been
  name,           \* connection -> participant, NoName before its hello
  seat,           \* connection -> the match its peer.matchId names
  byParticipant,  \* name -> connection
  challenges,     \* [id, from, to]: challenges nobody has answered
  issued,         \* challenges issued so far
  players,        \* match -> <<challenger, challenged>>, <<>> before it starts
  tick,           \* match -> ticks applied
  ended,          \* match -> why it ended, "none" until then
  settled,        \* ended matches still held, oldest first
  disconnected,   \* name -> the match it holds a grace entry for
  windowClosed,   \* names whose entry's window has run out
  graceAllowed,   \* whether reconnectionGraceMs > 0; set once
  up,             \* FALSE once advancing a match threw
  \* history
  owed,           \* [name, match]: returns the host has promised to wait for
  doubled,        \* some name was given a seat while it sat in a live match
  renamed,        \* some connection said hello twice
  absent          \* some match began without one of its players

conns == <<open, accepted, name, seat, byParticipant>>
matches == <<players, tick, ended, settled>>
grace == <<disconnected, windowClosed>>
server == <<graceAllowed, up>>
history == <<owed, doubled, renamed, absent>>
vars == <<conns, challenges, issued, matches, grace, server, history>>

Started == {m \in MatchIds : players[m] # <<>>}
LiveMatches == {m \in Started : ended[m] = "none"}
PlayersOf(m) == {players[m][i] : i \in 1 .. Len(players[m])}
Waiting == {settled[i] : i \in 1 .. Len(settled)}

-----------------------------------------------------------------------------
\* Mutant: the newest ended match is the one that is dropped.
RetainedOldest(m) ==
  IF Len(settled) < SettledLimit THEN Append(settled, m) ELSE settled

\* retain: at most SettledLimit ended matches wait for their last checkpoint.
Retained(m) ==
  LET all == Append(settled, m)
  IN  IF Len(all) > SettledLimit THEN Tail(all) ELSE all

\* Mutant: an ended match leaves its players' grace entries behind.
GraceLeft(m, entries) == entries

\* endMatch drops the grace entries of the match's players, whichever match
\* the entry is about.
GraceAfter(m, entries) ==
  [n \in Names |-> IF n \in PlayersOf(m) THEN NoMatch ELSE entries[n]]

\* endMatch, with the grace entries as its caller left them.
EndMatch(m, reason, entries) ==
  /\ ended' = [ended EXCEPT ![m] = reason]
  /\ settled' = Retained(m)
  /\ disconnected' = GraceAfter(m, entries)
  /\ windowClosed' = {n \in windowClosed : disconnected'[n] # NoMatch}
  /\ owed' = {o \in owed : o.match # m}
  /\ UNCHANGED <<players, tick>>

-----------------------------------------------------------------------------
Connect ==
  /\ accepted < MaxConns
  /\ accepted' = accepted + 1
  /\ open' = open \union {accepted + 1}
  /\ UNCHANGED <<name, seat, byParticipant, challenges, issued, matches, grace, history>>

\* Mutant: a returning name starts afresh.
ResumesNothing(n) == NoMatch

\* The match a returning name takes its seat in again.
Resumes(n) == IF disconnected[n] \in LiveMatches THEN disconnected[n] ELSE NoMatch

\* onHello.  A name that is taken is refused.  One with a grace entry for a
\* running match resumes its seat; any other starts afresh, and a connection
\* that already had a name simply takes the new one.
Hello(c, n) ==
  /\ c \in open /\ byParticipant[n] = NoConn
  /\ name' = [name EXCEPT ![c] = n]
  /\ byParticipant' = [byParticipant EXCEPT ![n] = c]
  /\ IF Resumes(n) # NoMatch
     THEN /\ seat' = [seat EXCEPT ![c] = Resumes(n)]
          /\ owed' = owed \ {[name |-> n, match |-> Resumes(n)]}
     ELSE UNCHANGED <<seat, owed>>
  /\ disconnected' = [disconnected EXCEPT ![n] = NoMatch]
  /\ windowClosed' = windowClosed \ {n}
  /\ renamed' = (renamed \/ name[c] # NoName)
  /\ UNCHANGED <<open, accepted, challenges, issued, matches, doubled, absent>>

\* onChallenge: the opponent must be here, in a universe other than one's own.
Challenge(c, n) ==
  /\ c \in open /\ name[c] # NoName
  /\ byParticipant[n] \in open \ {c}
  /\ issued < MaxChallenges
  /\ issued' = issued + 1
  /\ challenges' = challenges \union {[id |-> issued + 1, from |-> name[c], to |-> n]}
  /\ UNCHANGED <<conns, matches, grace, history>>

\* nextId: matches are numbered in the order they start.
IsNext(m) == m \notin Started /\ \A x \in MatchIds \ Started : m <= x

\* onAccept and start.  Whoever of the two is connected is seated, whatever
\* seat it had.
Accept(c, ch, m) ==
  LET seated == {x \in open : x \in {byParticipant[ch.from], byParticipant[ch.to]}} IN
  /\ c \in open /\ ch \in challenges /\ ch.to = name[c]
  /\ IsNext(m)
  /\ challenges' = challenges \ {ch}
  /\ players' = [players EXCEPT ![m] = <<ch.from, ch.to>>]
  /\ seat' = [x \in Conns |-> IF x \in seated THEN m ELSE seat[x]]
  /\ doubled' = (doubled \/ \E live \in LiveMatches :
                              PlayersOf(live) \intersect {ch.from, ch.to} # {})
  /\ absent' = (absent \/ \E n \in {ch.from, ch.to} : byParticipant[n] \notin open)
  /\ UNCHANGED <<open, accepted, name, byParticipant, issued, tick, ended, settled,
                 grace, owed, renamed>>

Decline(c, ch) ==
  /\ c \in open /\ ch \in challenges /\ ch.to = name[c]
  /\ challenges' = challenges \ {ch}
  /\ UNCHANGED <<conns, issued, matches, grace, history>>

\* onCheckpoint, when the report disagrees.  It is checked against the seat
\* of the connection it came on.
Dispute(c) ==
  LET m == seat[c] IN
  /\ c \in open /\ m # NoMatch
  /\ \/ /\ m \in LiveMatches
        /\ EndMatch(m, "desync", disconnected)
        /\ UNCHANGED <<conns, challenges, issued, doubled, renamed, absent>>
     \/ /\ m \in Waiting
        /\ \E i \in DOMAIN settled : settled[i] = m /\ settled' = RemoveAt(settled, i)
        /\ UNCHANGED <<conns, challenges, issued, players, tick, ended, grace, history>>

Leave(c) ==
  /\ c \in open /\ seat[c] \in LiveMatches
  /\ EndMatch(seat[c], "abandoned", disconnected)
  /\ UNCHANGED <<conns, challenges, issued, doubled, renamed, absent>>

\* Mutant: a dropped connection keeps its name.
NameKept(c) == byParticipant

\* What is left of the name index when c drops.
NameReleased(c) ==
  [n \in Names |-> IF n = name[c] THEN NoConn ELSE byParticipant[n]]

\* disconnect: the name is released; a running match is held open for a
\* grace window, or ends at once when there is none.
Disconnect(c) ==
  LET m == seat[c]
      n == name[c]
  IN
  /\ c \in open
  /\ open' = open \ {c}
  /\ byParticipant' = NameReleased(c)
  /\ CASE m \in LiveMatches /\ graceAllowed ->
            /\ disconnected' = [disconnected EXCEPT ![n] = m]
            /\ windowClosed' = windowClosed \ {n}
            /\ owed' = owed \union {[name |-> n, match |-> m]}
            /\ UNCHANGED matches
       [] m \in LiveMatches /\ ~graceAllowed ->
            EndMatch(m, "abandoned", disconnected)
       [] OTHER -> UNCHANGED <<matches, grace, owed>>
  /\ name' = [name EXCEPT ![c] = NoName]
  /\ seat' = [seat EXCEPT ![c] = NoMatch]
  /\ UNCHANGED <<accepted, challenges, issued, doubled, renamed, absent>>

-----------------------------------------------------------------------------
WindowPasses(n) ==
  /\ disconnected[n] # NoMatch /\ n \notin windowClosed
  /\ windowClosed' = windowClosed \union {n}
  /\ UNCHANGED <<conns, challenges, issued, matches, disconnected, history>>

\* pump, first half: a closed window gives up the seat and the match.
Expire(n) ==
  LET m == disconnected[n]
      entries == [disconnected EXCEPT ![n] = NoMatch]
  IN
  /\ n \in windowClosed
  /\ IF m \in LiveMatches THEN EndMatch(m, "abandoned", entries)
     ELSE /\ disconnected' = entries
          /\ windowClosed' = windowClosed \ {n}
          /\ UNCHANGED <<matches, owed>>
  /\ UNCHANGED <<conns, challenges, issued, doubled, renamed, absent>>

\* Mutant: no step limit.
OutcomesUnlimited(m) == {"none", "played"}

\* What one more tick may do to a match: nothing, or end it.  Why it ends
\* (terminal, truncated, conquest) is LockstepMatch's business.
Outcomes(m) == IF tick[m] + 1 >= StepLimit THEN {"played"} ELSE {"none", "played"}

\* Mutant: a tick waits for every player to answer it.
DueWhenAllAnswer(m) ==
  m \in LiveMatches /\ \A n \in PlayersOf(m) : byParticipant[n] \in open

\* A match's tick is due once its deadline passes, whoever has answered.
Due(m) == m \in LiveMatches

\* pump, second half: with every closed window dealt with, a match whose
\* tick is ready is advanced.
Pump(m) ==
  /\ windowClosed = {} /\ Due(m)
  /\ \E reason \in Outcomes(m) :
       IF reason = "none"
       THEN /\ tick' = [tick EXCEPT ![m] = @ + 1]
            /\ UNCHANGED <<players, ended, settled, grace, owed>>
       ELSE EndMatch(m, reason, disconnected)
  /\ UNCHANGED <<conns, challenges, issued, doubled, renamed, absent>>

-----------------------------------------------------------------------------
Init ==
  /\ open = {} /\ accepted = 0
  /\ name = [c \in Conns |-> NoName]
  /\ seat = [c \in Conns |-> NoMatch]
  /\ byParticipant = [n \in Names |-> NoConn]
  /\ challenges = {} /\ issued = 0
  /\ players = [m \in MatchIds |-> <<>>]
  /\ tick = [m \in MatchIds |-> 0]
  /\ ended = [m \in MatchIds |-> "none"]
  /\ settled = <<>>
  /\ disconnected = [n \in Names |-> NoMatch]
  /\ windowClosed = {}
  /\ owed = {}
  /\ doubled = FALSE /\ renamed = FALSE /\ absent = FALSE
  /\ graceAllowed \in BOOLEAN /\ up = TRUE

\* Advancing a match one of whose universes is over throws out of pump,
\* and nothing more happens.
Throw(m) ==
  /\ windowClosed = {} /\ Due(m) /\ tick[m] > 0
  /\ up' = FALSE
  /\ UNCHANGED <<conns, challenges, issued, matches, grace, graceAllowed, history>>

Frame(c) ==
  \/ \E n \in Names : Hello(c, n) \/ Challenge(c, n)
  \/ \E ch \in challenges : Decline(c, ch) \/ \E m \in MatchIds : Accept(c, ch, m)
  \/ Dispute(c)
  \/ Leave(c)

Handlers ==
  \/ Connect
  \/ \E c \in Conns : Frame(c) \/ Disconnect(c)
  \/ \E n \in Names : WindowPasses(n) \/ Expire(n)
  \/ \E m \in MatchIds : Pump(m)

Next ==
  \/ up /\ Handlers /\ UNCHANGED server
  \/ up /\ \E m \in MatchIds : Throw(m)

\* Time passes and the transport's timer pumps; the pump walks every entry
\* and every match.  Nothing is assumed of the participants.
Fairness ==
  /\ \A n \in Names : /\ WF_vars(up /\ WindowPasses(n) /\ UNCHANGED server)
                      /\ WF_vars(up /\ Expire(n) /\ UNCHANGED server)
  /\ \A m \in MatchIds : SF_vars(up /\ Pump(m) /\ UNCHANGED server)

Spec == Init /\ [][Next]_vars /\ Fairness

-----------------------------------------------------------------------------
TypeOK ==
  /\ accepted \in 0 .. MaxConns /\ open \subseteq 1 .. accepted
  /\ name \in [Conns -> Names \union {NoName}]
  /\ seat \in [Conns -> MatchIds \union {NoMatch}]
  /\ byParticipant \in [Names -> Conns \union {NoConn}]
  /\ challenges \subseteq [id : ChallengeIds, from : Names, to : Names]
  /\ issued \in 0 .. MaxChallenges
  /\ players \in [MatchIds -> {<<>>} \union (Names \X Names)]
  /\ tick \in [MatchIds -> 0 .. StepLimit - 1]
  /\ ended \in [MatchIds -> {"none", "played", "desync", "abandoned"}]
  /\ settled \in Seq(MatchIds) /\ Len(settled) <= SettledLimit
  /\ disconnected \in [Names -> MatchIds \union {NoMatch}]
  /\ windowClosed \subseteq {n \in Names : disconnected[n] # NoMatch}
  /\ graceAllowed \in BOOLEAN /\ up \in BOOLEAN
  /\ owed \subseteq [name : Names, match : MatchIds]
  /\ {doubled, renamed, absent} \subseteq BOOLEAN

\* A name is in the index exactly while the connection that holds it is
\* open, so a participant that drops can always come back under its name;
\* provided each connection says hello once.
NamesAreLive ==
  ~renamed =>
    \A n \in Names, c \in Conns :
      byParticipant[n] = c <=> c \in open /\ name[c] = n

\* As long as nobody sits in two matches at once, each player of a running
\* match who was there when it began either holds its seat on an open
\* connection or has a grace entry for that very match, and never both.
EveryPlayerIsAccountedFor ==
  ~(doubled \/ renamed \/ absent) =>
    \A m \in LiveMatches, i \in {1, 2} :
      LET n == players[m][i]
          sits == byParticipant[n] \in open /\ seat[byParticipant[n]] = m
          returning == disconnected[n] = m
      IN  sits # returning

\* Nobody is held a seat in a match that is over, or is held one while it is
\* connected: the second half of onHello's restore is never needed.
NoStaleEntry ==
  ~renamed =>
    \A n \in Names :
      disconnected[n] # NoMatch =>
        disconnected[n] \in LiveMatches /\ byParticipant[n] = NoConn

\* A match that ends can still have its final hashes compared: it is the last
\* to be dropped, and one that waits goes only when one of its own players
\* disputes it or when SettledLimit younger ones have ended.
FinalHashesWait ==
  [][up' => \A m \in MatchIds :
       /\ m \in LiveMatches /\ ended'[m] # "none" =>
            Len(settled') > 0 /\ settled'[Len(settled')] = m
       /\ m \in Waiting \ Waiting' =>
            \/ ended' = ended /\ \E c \in open : seat[c] = m
            \/ ended' # ended /\ m = Head(settled) /\ Len(settled') = SettledLimit]_vars

\* host.ts 229-233.  While a disconnected participant's window is open, the
\* host holds its entry: reconnecting resumes the match, and if it does not
\* the match is abandoned when the window closes.
GraceWindowHonoured ==
  \A o \in owed : disconnected[o.name] = o.match

\* A match that begins ends, whatever its participants send or fail to send,
\* unless advancing it brings the server down.
MatchesEnd ==
  \A m \in MatchIds : m \in LiveMatches ~> ended[m] # "none" \/ ~up
=============================================================================
