--------------------------- MODULE SequencerProofs ---------------------------
(***************************************************************************)
(* Proofs about Sequencer, for every number of channels, songs and mobjs.  *)
(* IInv is inductive.  Its parts say                                       *)
(*   - Locks: who is in a loop under the semaphore,                        *)
(*   - FreeClear: a channel without a song has nothing left of the last,   *)
(*   - Origins: what each loop of the game over the channels has done so   *)
(*     far, as the audio thread may end a sound at any step of it,         *)
(*   - Groups: how far a pass has come with the tracks of a song,          *)
(*   - Requests: a signal that is read, or handled, is the last request    *)
(*     unless a later one is still unread.                                 *)
(***************************************************************************)
EXTENDS Sequencer, FiniteSetTheorems, TLAPS

Signals == {"idle", "shutdown", "ready", "reset", "pause", "resume", "gain"}

Jobs == [song : Song \cup {None}, origin : Mobj \cup {None}, left : Nat,
         at : 0 .. NumChannels, group : 0 .. NumChannels]

ThreadTypes ==
    /\ signal \in Signals /\ doing \in Signals
    /\ sem \in {"free", "game", "audio"}
    /\ pc \in {"top", "handle", "answer", "lock", "play", "ended"}
    /\ turn \in Channel
    /\ gpc \in {"init", "loading", "run", "adding", "removing", "leaving", "clearing",
                "joining", "closed"}
    /\ job \in Jobs
    /\ alive \subseteq Mobj
    /\ asked \in {"none", "pause", "resume"}
    /\ heard \in BOOLEAN
    /\ older \subseteq Channel

ListTypes ==
    /\ song \in [Channel -> Song \cup {None}]
    /\ origin \in [Channel -> Mobj \cup {None}]
    /\ stop \in [Channel -> BOOLEAN]
    /\ paused \in [Channel -> BOOLEAN]
    /\ state \in [Channel -> {"ready", "paused", "ended"}]
    /\ begun \in [Channel -> BOOLEAN]
    /\ group \in [Channel -> 0 .. NumChannels]

Locks ==
    /\ sem = "audio" <=> pc = "play"
    /\ sem = "game" <=> gpc = "adding"

FreeClear ==
    \A c \in Channel : song[c] = None =>
        ~ stop[c] /\ ~ paused[c] /\ group[c] = 0 /\ origin[c] = None

Origins ==
    /\ gpc \in {"init", "loading", "run", "adding", "removing"} =>
         \A c \in Channel : origin[c] \in alive \cup {None}
    /\ gpc = "adding" => job.song \in Song /\ job.origin \in alive \cup {None}
    /\ gpc = "removing" =>
         /\ job.at \in Channel /\ job.origin \in alive
         /\ \A c \in Channel : c < job.at => origin[c] # job.origin
    /\ gpc = "clearing" =>
         /\ job.at \in Channel
         /\ \A c \in Channel : c < job.at => origin[c] = None

\* c and d play tracks of one song.
Together(c, d) == song[c] # None /\ song[d] # None /\ group[c] = group[d]

Groups ==
    /\ \A c \in Channel : song[c] # None => group[c] # 0
    /\ \A c, d \in Channel : Together(c, d) => paused[c] = paused[d]
    /\ sem # "audio" => \A c, d \in Channel : Together(c, d) => begun[c] = begun[d]
    /\ sem = "audio" =>
         /\ \A c \in Channel : c < turn /\ song[c] # None => begun[c]
         /\ \A c, d \in Channel :
              Together(c, d) /\ c >= turn /\ d >= turn => begun[c] = begun[d]
    /\ gpc = "adding" =>
         /\ job.group = 0 => FreeChannels = {}
         /\ \A c \in Channel : song[c] # None /\ group[c] = job.group /\ job.group # 0 =>
              ~ begun[c] /\ ~ paused[c]

Requests ==
    /\ signal \in {"pause", "resume"} => asked = signal
    /\ pc = "handle" /\ doing \in {"pause", "resume"} /\ heard => asked = doing
    /\ \A c \in older : song[c] # None
    /\ RequestHolds

IInv == ThreadTypes /\ ListTypes /\ Locks /\ FreeClear /\ Origins /\ Groups /\ Requests

\* Channels are numbered from 1 to NumChannels.
LEMMA ChannelFacts ==
    /\ Channel \subseteq Nat \ {0} /\ 1 \in Channel /\ NumChannels \in Channel
    /\ NumChannels \in Nat \ {0}
    /\ \A c \in Channel : c =< NumChannels /\ (c # NumChannels => c + 1 \in Channel)
BY ChannelsAssumption DEF Channel

\* What is less than the next channel is at most this one.
LEMMA BelowNext == \A c, d \in Channel : c < d + 1 => c =< d
BY ChannelFacts

\* NULL is neither a song nor a mobj.
LEMMA SongFacts == None \notin Song /\ None \notin Mobj /\ Music \subseteq Song /\ Sound \subseteq Song
BY SongsAssumption DEF Song

\* While a channel is free, there is a number that no song has for its tracks.
LEMMA NewGroupIsNew ==
    ASSUME ListTypes, FreeClear
    PROVE  /\ NewGroup \in 0 .. NumChannels
           /\ NewGroup = 0 => FreeChannels = {}
           /\ NewGroup # 0 => \A c \in Channel : group[c] # NewGroup
<1>1. CASE FreeChannels = {}
    BY <1>1, ChannelFacts DEF NewGroup
<1>2. CASE FreeChannels # {}
    <2>1. PICK c \in Channel : song[c] = None
        BY <1>2 DEF FreeChannels
    <2>2. \E g \in Channel : \A d \in Channel : group[d] # g
        <3> SUFFICES ASSUME \A g \in Channel : \E d \in Channel : group[d] = g
                     PROVE  FALSE
            OBVIOUS
        <3> DEFINE S == Channel \ {c}
                   f == [d \in S |-> IF group[d] \in Channel THEN group[d] ELSE 1]
        <3>1. IsFiniteSet(Channel) /\ Cardinality(Channel) = NumChannels
            BY FS_Interval, ChannelFacts DEF Channel
        <3>2. IsFiniteSet(S) /\ Cardinality(S) = NumChannels - 1
            BY <3>1, FS_RemoveElement
        <3>3. f \in [S -> Channel]
            BY ChannelFacts
        <3>4. \A g \in Channel : \E d \in S : f[d] = g
            <4>1. TAKE g \in Channel
            <4>2. PICK d \in Channel : group[d] = g
                OBVIOUS
            <4>3. d # c
                BY <2>1, <4>2, ChannelFacts DEF FreeClear
            <4> QED BY <4>2, <4>3
        <3>5. f \in Surjection(S, Channel)
            BY <3>3, <3>4 DEF Surjection
        <3> HIDE DEF f, S
        <3>6. Cardinality(Channel) =< Cardinality(S)
            BY <3>2, <3>5, FS_Surjection
        <3> QED BY <3>1, <3>2, <3>6, ChannelFacts
    <2>3. NewGroup \in Channel /\ \A d \in Channel : group[d] # NewGroup
        BY <1>2, <2>2 DEF NewGroup
    <2> QED BY <2>3, ChannelFacts DEF Channel
<1> QED BY <1>1, <1>2

\* What the steps of the game make of job is a job.
LEMMA NoJobIsJob ==
    /\ NoJob \in Jobs
    /\ \A o \in Mobj, i \in Channel : [NoJob EXCEPT !.origin = o, !.at = i] \in Jobs
    /\ \A i \in Channel : [NoJob EXCEPT !.at = i] \in Jobs
    /\ \A j \in Jobs, i \in Channel : [j EXCEPT !.at = i] \in Jobs
    /\ \A o \in Mobj \cup {None}, s \in Song, g \in 0 .. NumChannels, n \in Nat :
         [NoJob EXCEPT !.song = s, !.origin = o, !.group = g, !.left = n] \in Jobs
<1>1. Channel \subseteq 0 .. NumChannels /\ 0 \in 0 .. NumChannels
    BY ChannelFacts
<1>2. NoJob \in Jobs
    BY <1>1 DEF Jobs, NoJob
<1> QED BY <1>1, <1>2 DEF Jobs, NoJob

\* The state before I_InitSequencer satisfies IInv.
LEMMA InitInv == Init => IInv
<1> SUFFICES ASSUME Init PROVE IInv
    OBVIOUS
<1> USE ChannelFacts DEF Init
<1>1. ThreadTypes
    BY NoJobIsJob DEF ThreadTypes, Signals
<1>2. ListTypes
    BY DEF ListTypes
<1>3. Locks /\ FreeClear /\ Origins
    BY DEF Locks, FreeClear, Origins
<1>4. Groups
    BY DEF Groups, Together
<1>5. Requests
    BY DEF Requests, RequestHolds, Done
<1> QED BY <1>1, <1>2, <1>3, <1>4, <1>5 DEF IInv

\* What RunSong does to one channel.
LEMMA PlayChannelStep ==
    ASSUME ListTypes, older \subseteq Channel, NEW c \in Channel, PlayChannel(c)
    PROVE  /\ ListTypes'
           /\ \A d \in Channel : d # c =>
                /\ song'[d] = song[d] /\ origin'[d] = origin[d] /\ stop'[d] = stop[d]
                /\ paused'[d] = paused[d] /\ begun'[d] = begun[d] /\ group'[d] = group[d]
           /\ paused'[c] => paused[c]
           /\ \/ /\ song'[c] = None /\ origin'[c] = None /\ ~ stop'[c] /\ ~ paused'[c]
                 /\ group'[c] = 0
                 /\ older' = older \ {c}
              \/ /\ song'[c] = song[c] /\ origin'[c] = origin[c] /\ stop'[c] = stop[c]
                 /\ paused'[c] = paused[c] /\ group'[c] = group[c] /\ begun'[c]
                 /\ older' = older
              \/ /\ song[c] = None
                 /\ UNCHANGED <<song, origin, stop, paused, begun, group, older>>
<1>1. CASE song[c] = None /\ UNCHANGED <<listVars, older>>
    BY <1>1 DEF ListTypes, listVars
<1>2. CASE Chan_RemoveTrackFromPlaylist(c)
    BY <1>2, ChannelFacts DEF ListTypes, Chan_RemoveTrackFromPlaylist
<1>3. CASE /\ \E st \in NextStates(c) : state' = [state EXCEPT ![c] = st]
           /\ begun' = [begun EXCEPT ![c] = TRUE]
           /\ UNCHANGED <<song, origin, stop, paused, group, older>>
    <2>1. NextStates(c) \subseteq {"ready", "paused", "ended"}
        BY DEF NextStates
    <2> QED BY <1>3, <2>1 DEF ListTypes
<1> QED BY <1>1, <1>2, <1>3 DEF PlayChannel, Chan_RunSong

\* Every step of the game and of the audio thread keeps the types.
LEMMA TypesStep ==
    ASSUME IInv, [Next]_vars
    PROVE  ThreadTypes' /\ ListTypes'
<1> USE ChannelFacts, SongFacts DEF IInv, ThreadTypes, ListTypes
<1>1. CASE UNCHANGED vars
    BY <1>1 DEF vars, threadVars, listVars, gameVars, historyVars, Signals, Jobs
<1>2. CASE ReadSignal
    BY <1>2 DEF ReadSignal, threadVars, listVars, gameVars, historyVars, Signals, Jobs
<1>3. CASE Handle
    <2>1. paused' \in [Channel -> BOOLEAN]
        BY <1>3 DEF Handle, Signal_Pause, Signal_Resume
    <2> QED BY <1>3, <2>1 DEF Handle, threadVars, listVars, gameVars, historyVars
<1>4. CASE Answer
    BY <1>4 DEF Answer, threadVars, listVars, gameVars, historyVars, Signals, Jobs
<1>5. CASE StartPass
    BY <1>5 DEF StartPass, threadVars, listVars, gameVars, historyVars, Signals, Jobs
<1>6. CASE RunSong
    <2>1. ListTypes'
        BY <1>6, PlayChannelStep DEF RunSong
    <2>2. older' \subseteq Channel
        BY <1>6, PlayChannelStep DEF RunSong
    <2> QED BY <1>6, <2>1, <2>2 DEF RunSong, gameVars
<1>7. CASE I_InitSequencer
    BY <1>7 DEF I_InitSequencer, Goes, threadVars, listVars, gameVars, historyVars, Signals, Jobs
<1>8. CASE Seq_Shutdown
    BY <1>8 DEF Seq_Shutdown, threadVars, listVars, gameVars, historyVars, Signals, Jobs
<1>9. CASE SDL_WaitThread
    BY <1>9 DEF SDL_WaitThread, Goes, threadVars, listVars, gameVars, historyVars, Signals, Jobs
<1>10. CASE SequencerReady
    BY <1>10 DEF SequencerReady, Goes, threadVars, listVars, gameVars, historyVars, Signals, Jobs
<1>11. CASE AddTrack
    BY <1>11 DEF AddTrack, FreeChannels, threadVars, listVars, gameVars, historyVars, Signals, Jobs
<1>12. CASE SongStarted
    BY <1>12 DEF SongStarted, Goes, NoJob, threadVars, listVars, gameVars, historyVars, Signals, Jobs
<1>13. CASE S_RemoveOrigin
    <2>1. job' \in Jobs /\ origin' \in [Channel -> Mobj \cup {None}] /\ alive' \subseteq Mobj
        <3>1. job.at \in Channel
            BY <1>13 DEF S_RemoveOrigin, Origins
        <3>2. origin' \in [Channel -> Mobj \cup {None}] /\ alive' \subseteq Mobj
            BY <1>13, <3>1 DEF S_RemoveOrigin
        <3>3. CASE job.at = NumChannels
            BY <1>13, <3>2, <3>3, NoJobIsJob DEF S_RemoveOrigin
        <3>4. CASE job.at # NumChannels
            <4>1. job' = [job EXCEPT !.at = job.at + 1] /\ job.at + 1 \in Channel
                BY <1>13, <3>1, <3>4 DEF S_RemoveOrigin
            <4> QED BY <3>2, <4>1, NoJobIsJob
        <3> QED BY <3>3, <3>4
    <2> QED BY <1>13, <2>1 DEF S_RemoveOrigin, threadVars, listVars, gameVars, historyVars
<1>14. CASE I_ResetSound
    BY <1>14 DEF I_ResetSound, Goes, NoJob, threadVars, listVars, gameVars, historyVars, Signals, Jobs
<1>15. CASE I_RemoveSoundSource
    <2>1. job' \in Jobs /\ origin' \in [Channel -> Mobj \cup {None}]
        <3>1. job.at \in Channel
            BY <1>15 DEF I_RemoveSoundSource, Origins
        <3>2. origin' \in [Channel -> Mobj \cup {None}]
            BY <1>15, <3>1 DEF I_RemoveSoundSource
        <3>3. CASE job.at = NumChannels
            BY <1>15, <3>2, <3>3, NoJobIsJob DEF I_RemoveSoundSource
        <3>4. CASE job.at # NumChannels
            <4>1. job' = [job EXCEPT !.at = job.at + 1] /\ job.at + 1 \in Channel
                BY <1>15, <3>1, <3>4 DEF I_RemoveSoundSource
            <4> QED BY <3>2, <4>1, NoJobIsJob
        <3> QED BY <3>3, <3>4
    <2> QED BY <1>15, <2>1 DEF I_RemoveSoundSource, threadVars, listVars, gameVars, historyVars
<1>16. CASE P_Stop
    BY <1>16 DEF P_Stop, Goes, threadVars, listVars, gameVars, historyVars, Signals, Jobs
<1>17. ASSUME NEW sig \in {"pause", "resume", "gain"}, Ask(sig)
     PROVE  ThreadTypes' /\ ListTypes'
    <2>1. asked' \in {"none", "pause", "resume"} /\ heard' \in BOOLEAN /\ older' \subseteq Channel
        BY <1>17 DEF Ask, historyVars
    <2> QED BY <1>17, <2>1 DEF Ask, threadVars, listVars, gameVars, Signals
<1>18. ASSUME NEW s \in Song, NEW o \in alive \cup {None}, StartSong(s, o)
     PROVE  ThreadTypes' /\ ListTypes'
    <2>1. NewGroup \in 0 .. NumChannels
        BY NewGroupIsNew
    <2>2. (IF s \in Music THEN MusicTracks ELSE 1) \in Nat
        BY ChannelsAssumption
    <2>3. job' \in Jobs
        <3>1. o \in Mobj \cup {None}
            OBVIOUS
        <3> QED BY <1>18, <2>1, <2>2, <3>1, NoJobIsJob DEF StartSong
    <2> QED BY <1>18, <2>3 DEF StartSong, Goes, threadVars, listVars, historyVars
<1>19. ASSUME NEW s \in Song, NEW o \in alive \cup {None}, I_StopSound(s, o)
     PROVE  ThreadTypes' /\ ListTypes'
    BY <1>19 DEF I_StopSound, threadVars, listVars, gameVars, historyVars, Signals, Jobs
<1>20. ASSUME NEW o \in Mobj, SpawnMobj(o)
     PROVE  ThreadTypes' /\ ListTypes'
    BY <1>20 DEF SpawnMobj, threadVars, listVars, gameVars, historyVars, Signals, Jobs
<1>21. ASSUME NEW o \in Mobj, P_RemoveMobj(o)
     PROVE  ThreadTypes' /\ ListTypes'
    <2>1. job' \in Jobs
        BY <1>21, NoJobIsJob, ChannelFacts DEF P_RemoveMobj
    <2> QED BY <1>21, <2>1 DEF P_RemoveMobj, Goes, threadVars, listVars, historyVars
<1> QED
    BY <1>1, <1>2, <1>3, <1>4, <1>5, <1>6, <1>7, <1>8, <1>9, <1>10, <1>11, <1>12, <1>13, <1>14, <1>15, <1>16, <1>17, <1>18, <1>19, <1>20, <1>21, SongFacts
    DEF Next, Audio, Game, GoesOn

\* Only who holds the semaphore is in a loop under it, and a channel is
\* cleared as a whole.
LEMMA LocksStep ==
    ASSUME IInv, [Next]_vars
    PROVE  Locks' /\ FreeClear'
<1> USE ChannelFacts, SongFacts DEF IInv, ThreadTypes, ListTypes, Locks, FreeClear
<1>1. CASE UNCHANGED vars
    BY <1>1 DEF vars, threadVars, listVars, gameVars, historyVars
<1>2. CASE ReadSignal \/ Answer \/ StartPass \/ I_InitSequencer \/ Seq_Shutdown \/ SDL_WaitThread
            \/ SequencerReady \/ SongStarted \/ I_ResetSound \/ P_Stop
    BY <1>2 DEF ReadSignal, Answer, StartPass, I_InitSequencer, Seq_Shutdown, SDL_WaitThread, SequencerReady, SongStarted, I_ResetSound, P_Stop, Goes, NoJob, threadVars, listVars, gameVars, historyVars
<1>3. ASSUME NEW sig \in {"pause", "resume", "gain"}, Ask(sig)
     PROVE  Locks' /\ FreeClear'
    BY <1>3 DEF Ask, Goes, NoJob, threadVars, listVars, gameVars, historyVars
<1>4. ASSUME NEW s \in Song, NEW o \in alive \cup {None}, StartSong(s, o)
     PROVE  Locks' /\ FreeClear'
    BY <1>4 DEF StartSong, Goes, NoJob, threadVars, listVars, gameVars, historyVars
<1>5. ASSUME NEW o \in Mobj, SpawnMobj(o)
     PROVE  Locks' /\ FreeClear'
    BY <1>5 DEF SpawnMobj, Goes, NoJob, threadVars, listVars, gameVars, historyVars
<1>6. ASSUME NEW o \in Mobj, P_RemoveMobj(o)
     PROVE  Locks' /\ FreeClear'
    BY <1>6 DEF P_RemoveMobj, Goes, NoJob, threadVars, listVars, gameVars, historyVars
<1>7. ASSUME NEW s \in Song, NEW o \in alive \cup {None}, I_StopSound(s, o)
     PROVE  Locks' /\ FreeClear'
    <2>1. \A c \in Channel : song[c] = None => ~ (stop[c] \/ song[c] = s \/ (o # None /\ origin[c] = o))
        OBVIOUS
    <2> QED BY <1>7, <2>1 DEF I_StopSound, threadVars, gameVars
<1>8. CASE Handle
    BY <1>8 DEF Handle, Signal_Pause, Signal_Resume, gameVars
<1>9. CASE RunSong
    BY <1>9, PlayChannelStep DEF RunSong, gameVars
<1>10. CASE AddTrack
    BY <1>10 DEF AddTrack, Origins, FreeChannels, threadVars
<1>11. CASE S_RemoveOrigin
    BY <1>11 DEF S_RemoveOrigin, threadVars
<1>12. CASE I_RemoveSoundSource
    BY <1>12 DEF I_RemoveSoundSource, threadVars
<1> QED
    BY <1>1, <1>2, <1>3, <1>4, <1>5, <1>6, <1>7, <1>8, <1>9, <1>10, <1>11, <1>12, SongFacts
    DEF Next, Audio, Game, GoesOn

\* The loops of S_RemoveOrigin and S_ResetSound, which take no semaphore,
\* miss no channel, since nothing is added while they run.
LEMMA OriginsStep ==
    ASSUME IInv, [Next]_vars
    PROVE  Origins'
<1> USE ChannelFacts, SongFacts DEF IInv, ThreadTypes, ListTypes, Origins
<1>1. CASE UNCHANGED vars
    BY <1>1 DEF vars, threadVars, listVars, gameVars, historyVars
<1>2. CASE ReadSignal \/ Handle \/ Answer \/ StartPass \/ I_InitSequencer \/ Seq_Shutdown
            \/ SDL_WaitThread \/ SequencerReady \/ SongStarted \/ I_ResetSound \/ P_Stop
    BY <1>2 DEF ReadSignal, Handle, Answer, StartPass, I_InitSequencer, Seq_Shutdown, SDL_WaitThread, SequencerReady, SongStarted, I_ResetSound, P_Stop, Goes, NoJob, threadVars, listVars, gameVars, historyVars
<1>3. ASSUME NEW sig \in {"pause", "resume", "gain"}, Ask(sig)
     PROVE  Origins'
    BY <1>3 DEF Ask, Goes, NoJob, threadVars, listVars, gameVars, historyVars
<1>4. ASSUME NEW s \in Song, NEW o \in alive \cup {None}, StartSong(s, o)
     PROVE  Origins'
    BY <1>4 DEF StartSong, Goes, NoJob, threadVars, listVars, gameVars, historyVars
<1>5. ASSUME NEW s \in Song, NEW o \in alive \cup {None}, I_StopSound(s, o)
     PROVE  Origins'
    BY <1>5 DEF I_StopSound, Goes, NoJob, threadVars, listVars, gameVars, historyVars
<1>6. ASSUME NEW o \in Mobj, SpawnMobj(o)
     PROVE  Origins'
    BY <1>6 DEF SpawnMobj, Goes, NoJob, threadVars, listVars, gameVars, historyVars
<1>7. ASSUME NEW o \in Mobj, P_RemoveMobj(o)
     PROVE  Origins'
    BY <1>7 DEF P_RemoveMobj, Goes, NoJob, threadVars, listVars, gameVars, historyVars
<1>8. CASE RunSong
    BY <1>8, PlayChannelStep DEF RunSong, gameVars
<1>9. CASE AddTrack
    BY <1>9 DEF AddTrack, FreeChannels
<1>10. CASE S_RemoveOrigin
    <2>1. /\ job.at \in Channel /\ gpc = "removing" /\ job.origin \in alive
          /\ \A c \in Channel : origin[c] \in alive \cup {None}
          /\ \A c \in Channel : c < job.at => origin[c] # job.origin
        BY <1>10 DEF S_RemoveOrigin
    <2>2. /\ \A c \in Channel : origin'[c] \in alive \cup {None}
          /\ \A c \in Channel : c =< job.at => origin'[c] # job.origin
        BY <1>10, <2>1 DEF S_RemoveOrigin
    <2>3. CASE job.at = NumChannels
        BY <1>10, <2>2, <2>3 DEF S_RemoveOrigin
    <2>4. CASE job.at # NumChannels
        <3>1. /\ gpc' = "removing" /\ job'.at = job.at + 1 /\ job'.origin = job.origin
              /\ alive' = alive /\ job.at + 1 \in Channel
            BY <1>10, <2>1, <2>4 DEF S_RemoveOrigin, Jobs
        <3>2. \A c \in Channel : c < job.at + 1 => c =< job.at
            BY <2>1, BelowNext
        <3> QED BY <2>1, <2>2, <3>1, <3>2
    <2> QED BY <2>3, <2>4
<1>11. CASE I_RemoveSoundSource
    <2>1. job.at \in Channel /\ gpc = "clearing" /\ \A c \in Channel : c < job.at => origin[c] = None
        BY <1>11 DEF I_RemoveSoundSource
    <2>2. \A c \in Channel : c =< job.at => origin'[c] = None
        BY <1>11, <2>1 DEF I_RemoveSoundSource
    <2>3. CASE job.at = NumChannels
        BY <1>11, <2>2, <2>3 DEF I_RemoveSoundSource
    <2>4. CASE job.at # NumChannels
        <3>1. gpc' = "clearing" /\ job'.at = job.at + 1 /\ job.at + 1 \in Channel
            BY <1>11, <2>1, <2>4 DEF I_RemoveSoundSource, Jobs
        <3>2. \A c \in Channel : c < job.at + 1 => c =< job.at
            BY <2>1, BelowNext
        <3> QED BY <2>1, <2>2, <3>1, <3>2
    <2> QED BY <2>3, <2>4
<1> QED
    BY <1>1, <1>2, <1>3, <1>4, <1>5, <1>6, <1>7, <1>8, <1>9, <1>10, <1>11, SongFacts
    DEF Next, Audio, Game, GoesOn

\* A signal pauses every track that has a song, or none.
LEMMA HandleKeepsPace ==
    ASSUME Groups, Handle
    PROVE  \A c, d \in Channel : Together(c, d) => paused'[c] = paused'[d]
<1>1. \/ paused' = [c \in Channel |-> song[c] # None]
      \/ paused' = [c \in Channel |-> FALSE]
      \/ paused' = paused
    BY DEF Handle, Signal_Pause, Signal_Resume
<1> SUFFICES ASSUME NEW c \in Channel, NEW d \in Channel, Together(c, d)
             PROVE  paused'[c] = paused'[d]
    OBVIOUS
<1>2. paused[c] = paused[d]
    BY Zenon DEF Groups
<1>3. song[c] # None /\ song[d] # None
    BY DEF Together
<1>4. CASE paused' = [e \in Channel |-> song[e] # None]
    BY <1>3, <1>4
<1>5. CASE paused' = [e \in Channel |-> FALSE]
    BY <1>5
<1>6. CASE paused' = paused
    BY <1>2, <1>6
<1> QED BY <1>1, <1>4, <1>5, <1>6

\* The tracks of a song are added, begun and paused together.
LEMMA GroupsStep ==
    ASSUME IInv, [Next]_vars
    PROVE  Groups'
<1> USE ChannelFacts, SongFacts DEF IInv, ThreadTypes, ListTypes, Locks, FreeClear, Groups, Together
<1>1. CASE UNCHANGED vars
    BY <1>1 DEF vars, threadVars, listVars, gameVars, historyVars, FreeChannels
<1>2. CASE ReadSignal \/ Answer \/ StartPass \/ I_InitSequencer \/ Seq_Shutdown \/ SDL_WaitThread
            \/ SequencerReady \/ SongStarted \/ S_RemoveOrigin \/ I_ResetSound \/ I_RemoveSoundSource \/ P_Stop
    BY <1>2 DEF ReadSignal, Answer, StartPass, I_InitSequencer, Seq_Shutdown, SDL_WaitThread, SequencerReady, SongStarted, S_RemoveOrigin, I_ResetSound, I_RemoveSoundSource, P_Stop, Goes, NoJob, threadVars, listVars, gameVars, historyVars, FreeChannels
<1>3. ASSUME NEW sig \in {"pause", "resume", "gain"}, Ask(sig)
     PROVE  Groups'
    BY <1>3 DEF Ask, Goes, NoJob, threadVars, listVars, gameVars, historyVars, FreeChannels
<1>4. ASSUME NEW s \in Song, NEW o \in alive \cup {None}, I_StopSound(s, o)
     PROVE  Groups'
    BY <1>4 DEF I_StopSound, Goes, NoJob, threadVars, listVars, gameVars, historyVars, FreeChannels
<1>5. ASSUME NEW o \in Mobj, SpawnMobj(o)
     PROVE  Groups'
    BY <1>5 DEF SpawnMobj, Goes, NoJob, threadVars, listVars, gameVars, historyVars, FreeChannels
<1>6. ASSUME NEW o \in Mobj, P_RemoveMobj(o)
     PROVE  Groups'
    BY <1>6 DEF P_RemoveMobj, Goes, NoJob, threadVars, listVars, gameVars, historyVars, FreeChannels
<1>7. ASSUME NEW s \in Song, NEW o \in alive \cup {None}, StartSong(s, o)
     PROVE  Groups'
    BY <1>7, NewGroupIsNew DEF StartSong, Goes, NoJob, threadVars, listVars, FreeChannels
<1>8. CASE Handle
    <2>1. UNCHANGED <<song, begun, group, sem, turn, gpc, job>>
        BY <1>8 DEF Handle, gameVars
    <2>2. \A c, d \in Channel : Together(c, d) => paused'[c] = paused'[d]
        BY <1>8, HandleKeepsPace
    <2>3. gpc = "adding" => UNCHANGED paused
        BY <1>8 DEF Handle
    <2> QED BY <2>1, <2>2, <2>3 DEF FreeChannels
<1>9. CASE RunSong
    BY <1>9, PlayChannelStep DEF RunSong, gameVars
<1>10. CASE AddTrack
    <2>1. PICK c \in FreeChannels :
            /\ song' = [song EXCEPT ![c] = job.song]
            /\ paused' = [paused EXCEPT ![c] = FALSE]
            /\ begun' = [begun EXCEPT ![c] = FALSE]
            /\ group' = [group EXCEPT ![c] = job.group]
        BY <1>10 DEF AddTrack
    <2>2. c \in Channel /\ gpc = "adding" /\ sem = "game" /\ job.group # 0
        BY <1>10, <2>1 DEF AddTrack, FreeChannels
    <2>3. UNCHANGED <<sem, turn, gpc>> /\ job'.group = job.group
        BY <1>10 DEF AddTrack, threadVars, Jobs
    <2>4. \A d \in Channel : d # c =>
            song'[d] = song[d] /\ paused'[d] = paused[d] /\ begun'[d] = begun[d] /\ group'[d] = group[d]
        BY <2>1
    <2>5. ~ paused'[c] /\ ~ begun'[c] /\ group'[c] = job.group
        BY <2>1, <2>2
    <2>6. \A d \in Channel : song'[d] # None /\ group'[d] = job.group => ~ begun'[d] /\ ~ paused'[d]
        BY <2>2, <2>4, <2>5
    <2>7. \A d, e \in Channel : Together(d, e)' => paused'[d] = paused'[e] /\ begun'[d] = begun'[e]
        <3> TAKE d, e \in Channel
        <3>1. CASE d # c /\ e # c
            <4>1. Together(d, e)' => Together(d, e)
                BY <2>4, <3>1
            <4>2. Together(d, e) => paused[d] = paused[e] /\ begun[d] = begun[e]
                BY <2>2
            <4> QED BY <2>4, <3>1, <4>1, <4>2
        <3>2. CASE d = c \/ e = c
            <4>1. Together(d, e)' => group'[d] = job.group /\ group'[e] = job.group
                BY <2>5, <3>2
            <4>2. paused' \in [Channel -> BOOLEAN] /\ begun' \in [Channel -> BOOLEAN]
                BY <2>1, <2>2
            <4> QED BY <2>6, <4>1, <4>2
        <3> QED BY <3>1, <3>2
    <2> QED BY <2>2, <2>3, <2>4, <2>5, <2>6, <2>7
<1> QED
    BY <1>1, <1>2, <1>3, <1>4, <1>5, <1>6, <1>7, <1>8, <1>9, <1>10, SongFacts
    DEF Next, Audio, Game, GoesOn

\* RunSong never pauses a channel, and takes one out of older with its song.
LEMMA RunSongKeepsRequests ==
    ASSUME IInv, RunSong
    PROVE  Requests'
<1>1. turn \in Channel /\ ListTypes /\ older \subseteq Channel /\ PlayChannel(turn)
    BY DEF RunSong, IInv, ThreadTypes
<1>2. pc = "play" /\ pc' # "handle" /\ UNCHANGED <<signal, doing, asked, heard>>
    BY DEF RunSong
<1>3. \A c \in Channel : paused'[c] => paused[c]
    <2> HIDE DEF IInv, RunSong
    <2>1. paused'[turn] => paused[turn]
        BY <1>1, PlayChannelStep
    <2>2. \A c \in Channel : c # turn => paused'[c] = paused[c]
        BY <1>1, PlayChannelStep
    <2> QED BY <2>1, <2>2
<1>4. \A c \in older' : c \in older /\ song'[c] # None /\ paused'[c] = paused[c]
    BY <1>1, PlayChannelStep DEF IInv, Requests
<1>5. Requests
    BY DEF IInv
<1>6. \A c \in older' : song'[c] # None
    BY <1>4
<1>7. Done("pause")' => Done("pause")
    BY <1>2 DEF Done
<1>8. Done("resume")' => Done("resume")
    BY <1>2 DEF Done
<1>9. Done("pause") => \A c \in older : paused[c]
    BY <1>5 DEF Requests, RequestHolds
<1>10. Done("resume") => \A c \in Channel : ~ paused[c]
    BY <1>5 DEF Requests, RequestHolds
<1>11. Done("pause")' => \A c \in older' : paused'[c]
    BY <1>4, <1>7, <1>9
<1>12. Done("resume")' => \A c \in Channel : ~ paused'[c]
    BY <1>3, <1>8, <1>10
<1>13. RequestHolds'
    BY <1>11, <1>12 DEF RequestHolds
<1> QED BY <1>2, <1>5, <1>6, <1>13 DEF Requests

\* A request that was overwritten is no longer the last one.
LEMMA RequestsStep ==
    ASSUME IInv, [Next]_vars
    PROVE  Requests'
<1> USE ChannelFacts, SongFacts DEF IInv, ThreadTypes, ListTypes, Requests, RequestHolds, Done
<1>1. CASE UNCHANGED vars
    BY <1>1 DEF vars, threadVars, listVars, gameVars, historyVars, Signals
<1>2. CASE ReadSignal \/ Answer \/ StartPass \/ I_InitSequencer \/ Seq_Shutdown \/ SDL_WaitThread
            \/ SequencerReady \/ SongStarted \/ S_RemoveOrigin \/ I_ResetSound \/ I_RemoveSoundSource \/ P_Stop
    BY <1>2 DEF ReadSignal, Answer, StartPass, I_InitSequencer, Seq_Shutdown, SDL_WaitThread, SequencerReady, SongStarted, S_RemoveOrigin, I_ResetSound, I_RemoveSoundSource, P_Stop, Goes, NoJob, threadVars, listVars, gameVars, historyVars, Signals
<1>3. ASSUME NEW s \in Song, NEW o \in alive \cup {None}, StartSong(s, o)
     PROVE  Requests'
    BY <1>3 DEF StartSong, Goes, NoJob, threadVars, listVars, gameVars, historyVars, Signals
<1>4. ASSUME NEW s \in Song, NEW o \in alive \cup {None}, I_StopSound(s, o)
     PROVE  Requests'
    BY <1>4 DEF I_StopSound, Goes, NoJob, threadVars, listVars, gameVars, historyVars, Signals
<1>5. ASSUME NEW o \in Mobj, SpawnMobj(o)
     PROVE  Requests'
    BY <1>5 DEF SpawnMobj, Goes, NoJob, threadVars, listVars, gameVars, historyVars, Signals
<1>6. ASSUME NEW o \in Mobj, P_RemoveMobj(o)
     PROVE  Requests'
    BY <1>6 DEF P_RemoveMobj, Goes, NoJob, threadVars, listVars, gameVars, historyVars, Signals
<1>7. ASSUME NEW sig \in {"pause", "resume", "gain"}, Ask(sig)
     PROVE  Requests'
    BY <1>7 DEF Ask, threadVars, listVars, historyVars, Signals
<1>8. CASE Handle
    BY <1>8 DEF Handle, Signal_Pause, Signal_Resume, gameVars, historyVars
<1>9. CASE RunSong
    BY <1>9, RunSongKeepsRequests
<1>10. CASE AddTrack
    BY <1>10 DEF AddTrack, Origins, FreeChannels, threadVars, historyVars
<1> QED
    BY <1>1, <1>2, <1>3, <1>4, <1>5, <1>6, <1>7, <1>8, <1>9, <1>10, SongFacts
    DEF Next, Audio, Game, GoesOn

(* IInv holds in every state the game and the audio thread can reach.         *)
THEOREM InvHolds == Spec => []IInv
<1>1. ASSUME IInv, [Next]_vars PROVE IInv'
    BY <1>1, TypesStep, LocksStep, OriginsStep, GroupsStep, RequestsStep DEF IInv
<1> QED BY <1>1, InitInv, PTL DEF Spec

(* The playlist is well typed, the semaphore is held by who is in its loop,    *)
(* and free channels are clean.                                                *)
THEOREM TypesHold == Spec => []TypeOK
<1>1. IInv => TypeOK
    BY DEF IInv, ThreadTypes, ListTypes, Locks, FreeClear, TypeOK, FreeChannels, Signals
<1> QED BY <1>1, InvHolds, PTL

(* Whatever the audio thread does in the middle of the game's loops, no        *)
(* channel has a removed or freed mobj as its origin when the game goes on.    *)
THEOREM OriginsAreAlive == Spec => []OriginsLive
<1>1. IInv => OriginsLive
    BY DEF IInv, Origins, OriginsLive
<1> QED BY <1>1, InvHolds, PTL

(* The tracks of a song begin in one pass and pause together.                  *)
THEOREM TracksTogether == Spec => []TracksInStep
<1>1. IInv => TracksInStep
    BY DEF IInv, Groups, Together, TracksInStep, FreeChannels
<1> QED BY <1>1, InvHolds, PTL

(* The last request to pause or to resume holds once it has been read, though  *)
(* requests may be overwritten.                                                *)
THEOREM LastRequestHolds == Spec => []RequestHolds
<1>1. IInv => RequestHolds
    BY DEF IInv, Requests
<1> QED BY <1>1, InvHolds, PTL
=============================================================================
