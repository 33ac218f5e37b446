------------------------------ MODULE Sequencer ------------------------------
(***************************************************************************)
(* The sequencer (system/i_audio.cc) and the sound code that drives it     *)
(* (sound/s_sound.cc): two threads over one playlist.                      *)
(*                                                                         *)
(* The game starts songs (music of several tracks, sounds of one) and      *)
(* marks them to be stopped; the audio thread plays, ends and removes      *)
(* them.  Both do so under a semaphore.  The game also looks for the mobjs *)
(* that channels have as origins, and clears them, without it.             *)
(*                                                                         *)
(* The game gives its signals through one word.  The audio thread reads    *)
(* it, acts, and sets it to "ready"; the game no longer waits for that     *)
(* (Seq_WaitOnSignal is commented out), so a signal may be overwritten.    *)
(*                                                                         *)
(* MIDI data is abstract: in a pass a track goes on, ends, or breaks off.  *)
(***************************************************************************)
EXTENDS Integers, FiniteSets

CONSTANTS
    NumChannels,    \* MIDI_CHANNELS
    Music,          \* songs of type 1
    MusicTracks,    \* how many tracks they have
    Sound,          \* songs of type 0, with one track
    Endless,        \* songs that jump back and never end
    Broken,         \* songs whose data ends without MIDI_END
    Mobj,           \* addresses of mobjs
    None            \* NULL

ASSUME ChannelsAssumption == NumChannels \in Nat \ {0} /\ MusicTracks \in Nat \ {0}
ASSUME SongsAssumption ==
    /\ Music \cap Sound = {}
    /\ None \notin Music \cup Sound \cup Mobj

Channel == 1 .. NumChannels
Song == Music \cup Sound

VARIABLES
    signal,     \* doomseq.signal
    sem,        \* who holds the semaphore: "free", "game" or "audio"
    pc,         \* the audio thread: "top", "handle", "answer", "lock", "play", "ended"
    doing,      \* the signal it has read
    turn,       \* the channel it is at in Seq_RunSong
    song,       \* playlist[].song
    origin,     \* playlist[].origin
    stop,       \* playlist[].stop
    paused,     \* playlist[].paused
    state,      \* playlist[].state
    begun,      \* playlist[].starttime is set
    group,      \* history: which channels were started together; 0: empty
    gpc,        \* the game thread
    job,        \* the locals of the loop it is in
    alive,      \* mobjs that are not removed
    asked,      \* history: the last request of "pause" or "resume"
    heard,      \* history: has the audio thread read it?
    older       \* history: for "pause": the channels that were playing then

threadVars == <<pc, doing, turn>>
listVars == <<song, origin, stop, paused, state, begun, group>>
gameVars == <<gpc, job, alive>>
historyVars == <<asked, heard, older>>
vars == <<signal, sem, threadVars, listVars, gameVars, historyVars>>

NoJob == [song |-> None, origin |-> None, left |-> 0, at |-> 0, group |-> 0]

Init ==
    /\ signal = "idle"
    /\ sem = "free"
    /\ pc = "top" /\ doing = "idle" /\ turn = 1
    /\ song = [c \in Channel |-> None]
    /\ origin = [c \in Channel |-> None]
    /\ stop = [c \in Channel |-> FALSE]
    /\ paused = [c \in Channel |-> FALSE]
    /\ state = [c \in Channel |-> "ready"]
    /\ begun = [c \in Channel |-> FALSE]
    /\ group = [c \in Channel |-> 0]
    /\ gpc = "init" /\ job = NoJob /\ alive = {}
    /\ asked = "none" /\ heard = FALSE /\ older = {}
-----------------------------------------------------------------------------
(* The audio thread (Thread_PlayerHandler).                                    *)

(* It reads the signal, without the mutex.                                     *)
ReadSignal ==
    /\ pc = "top"
    /\ doing' = signal
    /\ pc' = CASE signal = "idle" -> "top"
               [] signal = "shutdown" -> "ended"
               [] signal = "ready" -> "lock"
               [] OTHER -> "handle"
    /\ heard' = (heard \/ signal = asked)
    /\ UNCHANGED <<signal, sem, turn, listVars, gameVars, asked, older>>

Signal_Pause == paused' = [c \in Channel |-> song[c] # None]

Signal_Resume_Waiting ==
    paused' = [c \in Channel |-> paused[c] /\ state[c] # "paused"]
Signal_Resume == paused' = [c \in Channel |-> FALSE]

\* The handlers; Signal_UpdateGain and Signal_Reset do nothing to the playlist,
\* and Signal_Reset does not take the semaphore.
Handle ==
    /\ pc = "handle"
    /\ \/ sem = "free" /\ doing = "pause" /\ Signal_Pause
       \/ sem = "free" /\ doing = "resume" /\ Signal_Resume
       \/ sem = "free" /\ doing = "gain" /\ UNCHANGED paused
       \/ doing = "reset" /\ UNCHANGED paused
    /\ pc' = "answer"
    /\ UNCHANGED <<signal, sem, doing, turn, song, origin, stop, state, begun, group,
                   gameVars, historyVars>>

(* Each handler ends with Seq_SetStatus, over whatever signal there is now.    *)
Answer ==
    /\ pc = "answer"
    /\ signal' = "ready"
    /\ pc' = "lock"
    /\ doing' = "ready"
    /\ UNCHANGED <<sem, turn, listVars, gameVars, historyVars>>

(* Seq_RunSong: one pass over the playlist, under the semaphore.               *)
StartPass ==
    /\ pc = "lock"
    /\ sem = "free"
    /\ sem' = "audio"
    /\ pc' = "play"
    /\ turn' = 1
    /\ UNCHANGED <<signal, doing, listVars, gameVars, historyVars>>

Chan_RemoveTrackFromPlaylist(c) ==
    /\ song' = [song EXCEPT ![c] = None]
    /\ origin' = [origin EXCEPT ![c] = None]
    /\ stop' = [stop EXCEPT ![c] = FALSE]
    /\ paused' = [paused EXCEPT ![c] = FALSE]
    /\ state' = [state EXCEPT ![c] = "ended"]
    /\ begun' = [begun EXCEPT ![c] = FALSE]
    /\ group' = [group EXCEPT ![c] = 0]
    /\ older' = older \ {c}

\* The states a channel may be in after its events were read, by
\* Chan_CheckState and Chan_CheckTrackEnd.
NextStates(c) ==
    IF state[c] = "ended" THEN {"ended"}
    ELSE IF paused[c] THEN {"paused"}
    ELSE IF song[c] \in Broken THEN {"ready", "ended"}
    ELSE {"ready"}

\* Chan_RunSong: the track goes on, or Event_Meta reads MIDI_END.
Chan_RunSong(c) ==
    \/ /\ \E st \in NextStates(c) : state' = [state EXCEPT ![c] = st]
       /\ begun' = [begun EXCEPT ![c] = TRUE]
       /\ UNCHANGED <<song, origin, stop, paused, group, older>>
    \/ /\ state[c] # "ended" /\ ~ paused[c]
       /\ song[c] \notin Endless \cup Broken
       /\ Chan_RemoveTrackFromPlaylist(c)

PlayChannel_PausedFirst(c) ==
    \/ song[c] = None /\ UNCHANGED <<listVars, older>>
    \/ song[c] # None /\ (paused[c] \/ ~ stop[c]) /\ Chan_RunSong(c)
    \/ song[c] # None /\ ~ paused[c] /\ stop[c] /\ Chan_RemoveTrackFromPlaylist(c)

PlayChannel(c) ==
    \/ song[c] = None /\ UNCHANGED <<listVars, older>>
    \/ song[c] # None /\ stop[c] /\ Chan_RemoveTrackFromPlaylist(c)
    \/ song[c] # None /\ ~ stop[c] /\ Chan_RunSong(c)

RunSong ==
    /\ pc = "play"
    /\ PlayChannel(turn)
    /\ IF turn = NumChannels
       THEN pc' = "top" /\ sem' = "free" /\ turn' = 1
       ELSE turn' = turn + 1 /\ UNCHANGED <<pc, sem>>
    /\ UNCHANGED <<signal, doing, gameVars, asked, heard>>

Audio == ReadSignal \/ Handle \/ Answer \/ StartPass \/ RunSong
-----------------------------------------------------------------------------
(* The game.  It keeps on doing what its gpc says.                             *)

Goes(from, to) == gpc = from /\ gpc' = to

(* I_InitSequencer, once the thread is there: it is told to play before the    *)
(* songs are read; without a soundfont it is shut down again.                  *)
I_InitSequencer ==
    /\ Goes("init", "loading")
    /\ signal' = "ready"
    /\ UNCHANGED <<sem, threadVars, listVars, job, alive, historyVars>>

SequencerReady ==
    /\ Goes("loading", "run")                   \* seqready
    /\ UNCHANGED <<signal, sem, threadVars, listVars, job, alive, historyVars>>

(* Seq_Shutdown: called when the soundfont is missing, and by I_Quit and       *)
(* I_Error.  SDL_WaitThread returns when the audio thread has returned.        *)
Seq_Shutdown ==
    /\ gpc \in {"loading", "run", "leaving"}
    /\ gpc' = "joining"
    /\ signal' = "shutdown"
    /\ UNCHANGED <<sem, threadVars, listVars, job, alive, historyVars>>

SDL_WaitThread ==
    /\ Goes("joining", "closed")
    /\ pc = "ended"
    /\ UNCHANGED <<signal, sem, threadVars, listVars, job, alive, historyVars>>

\* I_PauseSound, I_ResumeSound, I_SetGain
Ask(sig) ==
    /\ gpc = "run"
    /\ signal' = sig
    /\ IF sig = "gain" THEN UNCHANGED historyVars
       ELSE /\ asked' = sig
            /\ heard' = FALSE
            /\ older' = {c \in Channel : sig = "pause" /\ song[c] # None}
    /\ UNCHANGED <<sem, threadVars, listVars, gameVars>>

FreeChannels == {c \in Channel : song[c] = None}

NewGroup == IF FreeChannels = {} THEN 0
            ELSE CHOOSE g \in Channel : \A c \in Channel : group[c] # g

StartSong_Unlocked(s, o) ==
    /\ Goes("run", "adding")
    /\ job' = [NoJob EXCEPT !.song = s, !.origin = o, !.group = NewGroup,
                            !.left = IF s \in Music THEN MusicTracks ELSE 1]
    /\ UNCHANGED <<signal, sem, threadVars, listVars, alive, historyVars>>

(* I_StartMusic and I_StartSound: all tracks of the song are added under the   *)
(* semaphore.                                                                  *)
StartSong(s, o) ==
    /\ Goes("run", "adding")
    /\ sem = "free"
    /\ sem' = "game"
    /\ job' = [NoJob EXCEPT !.song = s, !.origin = o, !.group = NewGroup,
                            !.left = IF s \in Music THEN MusicTracks ELSE 1]
    /\ UNCHANGED <<signal, threadVars, listVars, alive, historyVars>>

(* Song_AddTrackToPlaylist: a track takes the first free channel.              *)
AddTrack ==
    /\ gpc = "adding"
    /\ job.left > 0
    /\ \E c \in FreeChannels :
        /\ \A d \in FreeChannels : c =< d
        /\ song' = [song EXCEPT ![c] = job.song]
        /\ origin' = [origin EXCEPT ![c] = job.origin]
        /\ stop' = [stop EXCEPT ![c] = FALSE]
        /\ paused' = [paused EXCEPT ![c] = FALSE]
        /\ state' = [state EXCEPT ![c] = "ready"]
        /\ begun' = [begun EXCEPT ![c] = FALSE]
        /\ group' = [group EXCEPT ![c] = job.group]
    /\ job' = [job EXCEPT !.left = @ - 1]
    /\ UNCHANGED <<signal, sem, threadVars, gpc, alive, historyVars>>

\* The loop ends; tracks that have found no channel are left out.
SongStarted ==
    /\ Goes("adding", "run")
    /\ job.left = 0 \/ FreeChannels = {}
    /\ sem' = "free"
    /\ job' = NoJob
    /\ UNCHANGED <<signal, threadVars, listVars, alive, historyVars>>

(* I_StopSound: what plays that song, or for that mobj, is marked.             *)
I_StopSound(s, o) ==
    /\ gpc = "run"
    /\ sem = "free"
    /\ stop' = [c \in Channel |-> stop[c] \/ song[c] = s \/ (o # None /\ origin[c] = o)]
    /\ UNCHANGED <<signal, sem, threadVars, song, origin, paused, state, begun, group,
                   gameVars, historyVars>>

SpawnMobj(o) ==
    /\ gpc = "run"
    /\ alive' = alive \cup {o}
    /\ UNCHANGED <<signal, sem, threadVars, listVars, gpc, job, historyVars>>

(* P_RemoveMobj calls S_RemoveOrigin, a loop over the channels that does not   *)
(* take the semaphore (I_GetSoundSource, I_RemoveSoundSource).                 *)
P_RemoveMobj(o) ==
    /\ Goes("run", "removing")
    /\ o \in alive
    /\ job' = [NoJob EXCEPT !.origin = o, !.at = 1]
    /\ UNCHANGED <<signal, sem, threadVars, listVars, alive, historyVars>>

S_RemoveOrigin_First ==
    /\ gpc = "removing"
    /\ LET found == origin[job.at] = job.origin
       IN /\ origin' = IF found THEN [origin EXCEPT ![job.at] = None] ELSE origin
          /\ IF found \/ job.at = NumChannels
             THEN gpc' = "run" /\ job' = NoJob /\ alive' = alive \ {job.origin}
             ELSE job' = [job EXCEPT !.at = @ + 1] /\ UNCHANGED <<gpc, alive>>
    /\ UNCHANGED <<signal, sem, threadVars, song, stop, paused, state, begun, group,
                   historyVars>>

S_RemoveOrigin ==
    /\ gpc = "removing"
    /\ origin' = IF origin[job.at] = job.origin
                 THEN [origin EXCEPT ![job.at] = None] ELSE origin
    /\ IF job.at = NumChannels
       THEN gpc' = "run" /\ job' = NoJob /\ alive' = alive \ {job.origin}
       ELSE job' = [job EXCEPT !.at = @ + 1] /\ UNCHANGED <<gpc, alive>>
    /\ UNCHANGED <<signal, sem, threadVars, song, stop, paused, state, begun, group,
                   historyVars>>

(* P_Stop: the mobjs of the level are freed while channels still have them as  *)
(* origins; S_ResetSound clears all of them before S_UpdateSounds runs again.  *)
P_Stop ==
    /\ Goes("run", "leaving")
    /\ alive' = {}
    /\ UNCHANGED <<signal, sem, threadVars, listVars, job, historyVars>>

I_ResetSound ==
    /\ Goes("leaving", "clearing")
    /\ signal' = "reset"
    /\ job' = [NoJob EXCEPT !.at = 1]
    /\ UNCHANGED <<sem, threadVars, listVars, alive, historyVars>>

I_RemoveSoundSource ==
    /\ gpc = "clearing"
    /\ origin' = [origin EXCEPT ![job.at] = None]
    /\ IF job.at = NumChannels
       THEN gpc' = "run" /\ job' = NoJob
       ELSE job' = [job EXCEPT !.at = @ + 1] /\ UNCHANGED gpc
    /\ UNCHANGED <<signal, sem, threadVars, song, stop, paused, state, begun, group,
                   alive, historyVars>>

GoesOn == SequencerReady \/ AddTrack \/ SongStarted \/ S_RemoveOrigin
            \/ I_ResetSound \/ I_RemoveSoundSource

Game ==
    \/ I_InitSequencer \/ Seq_Shutdown \/ SDL_WaitThread \/ GoesOn \/ P_Stop
    \/ \E sig \in {"pause", "resume", "gain"} : Ask(sig)
    \/ \E s \in Music : StartSong(s, None)
    \/ \E s \in Sound, o \in alive \cup {None} : StartSong(s, o)
    \/ \E s \in Song, o \in alive \cup {None} : I_StopSound(s, o)
    \/ \E o \in Mobj : SpawnMobj(o) \/ P_RemoveMobj(o)

Next == Audio \/ Game

Spec == Init /\ [][Next]_vars

(* The audio thread runs, and gets the semaphore when the game lets go of it   *)
(* again and again (the game holds it for microseconds in a tic); what the     *)
(* game has begun it goes on with.  Nobody has to start, pause or quit.        *)
FairSpec == Spec /\ SF_vars(Audio) /\ WF_vars(GoesOn)
-----------------------------------------------------------------------------
TypeOK ==
    /\ signal \in {"idle", "shutdown", "ready", "reset", "pause", "resume", "gain"}
    /\ sem \in {"free", "game", "audio"}
    /\ sem = "audio" <=> pc = "play"
    /\ sem = "game" <=> gpc = "adding"
    /\ song \in [Channel -> Song \cup {None}]
    /\ origin \in [Channel -> Mobj \cup {None}]
    /\ \A c \in FreeChannels : ~ stop[c] /\ ~ paused[c] /\ group[c] = 0

(* S_UpdateSounds reads the position of every mobj that has a sound: none of   *)
(* them has been removed or freed, though the audio thread ends sounds, mobjs  *)
(* are removed and levels end at any time.                                     *)
OriginsLive == gpc = "run" => \A c \in Channel : origin[c] \in alive \cup {None}

(* The tracks of a song begin in the same pass, and pause and go on together.  *)
TracksInStep ==
    sem = "free" =>
        \A c, d \in Channel \ FreeChannels :
            group[c] = group[d] => begun[c] = begun[d] /\ paused[c] = paused[d]

(* When the audio thread has read the last request to pause or to resume, and  *)
(* done it, what played at that time is paused, or nothing is.                 *)
Done(request) == asked = request /\ heard /\ ~ (pc = "handle" /\ doing = request)
RequestHolds ==
    /\ Done("pause") => \A c \in older : paused[c]
    /\ Done("resume") => \A c \in Channel : ~ paused[c]

(* What is stopped is removed, even while it is paused: a channel is not       *)
(* stopped for ever while the thread runs.                                     *)
StopsEnd == \A c \in Channel : []<>(~ stop[c] \/ pc = "ended")
-----------------------------------------------------------------------------
(* i_audio.cc:1094 "wait until the audio thread is finished": the thread       *)
(* finishes.  It does not when it sets "ready" over the signal to shut down.   *)
ShutdownEnds == gpc = "joining" ~> pc = "ended"

(* i_audio.cc:220 "game will wait (while loop) until the audio thread signals  *)
(* itself to be ready again": no signal is overwritten.                        *)
SignalsHeard ==
    [][signal' # signal =>
        \/ signal \in {"idle", "ready"}
        \/ pc = "answer" /\ signal = doing]_vars
=============================================================================
