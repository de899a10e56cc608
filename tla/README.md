# Verification of the natural voice mobile SDK for Android

TLA+ specifications of the SDK in `voice-android` and of the FLAC library it
compiles in. They are translated from the Java and C source, model-checked with
TLC on small instances, and what matters most is proved with TLAPS for all
values of the constants.

## 1. The system

The SDK records speech, encodes it (FLAC or WAV) while it is spoken, and sends
it to the cloud. Java paths below are relative to
`src/voice-android/src/main/java/com/aimmatic/natural/`, C paths to
`src/voice-android/src/main/jni/flac/src/libFLAC/`.

| component | state it keeps | operations | hard behaviour |
|---|---|---|---|
| **Recorder**, `voice/android/VoiceRecorder.java` | `stop`, `thread`, `audioRecord`, `voiceHeardMillis`, `voiceStartStartedMillis`, all under `lock` | `start`, `stop`, the reader loop `run`, `endRecording`, `end` | a looper thread against the callers of `stop`; reentrant monitor: callbacks and `read` may call `stop`; `thread.quit()` throws queued work away; two time limits looked at in different branches; an encoder that fails |
| **Voice detection**, `isHearingVoice` in the same file | none | scan of a block of bytes | signed bytes, odd lengths, the threshold |
| **Recorder service**, `voice/android/VoiceRecorderService.java` | `voiceRecorder`, `currentStrategy`, `stopPolicy`, `recordSampleRate`, `listeners`; the files `aimmatic-audio.<ext>` | `startRecordVoice`, `stopRecordVoice`, `onUserChoice`, `addListener`, `removeListener`; the listener it gives to each recorder; `BackgroundTask` | no lock at all: the main thread, the reader of each session and the senders share the fields and the files |
| **Record strategy**, `voice/android/RecordStrategy.java` | limits, policies, encoder, language | setters that validate | one strategy used twice |
| **Encoders**, `voice/encoder/*`, `voice/android/LibFlac.java`, `jni/libflac.c` | native handle `cPointer`, `CallbackRef`, static `pcm[960]` | `initialize`, `encode`, `release`, `convertRawPCM` | output delayed until `finish`; native memory; an encoder two sessions share |
| **Account and authorization**, `core/rest/Interceptor.java`, `core/rest/AndroidAppContext.java`, `oauth/AimMatic.java`, `ui/AimMaticLoginFragment.java` | token, refresh token, profile, ids, in shared preferences | `intercept` (renew on 401, once), `fetchToken`, `fetchUserProfile`, login | concurrent renewals, success and error callbacks both called, a profile of another account |
| **Language list**, `voice/rest/Language.java` | static `supportLang`, file `aimmatic-speech-lang.json` | `getAllSupportedLanguage`, `getLanguage`, `loadLanguage` | files left by processes that ended in the middle; a static field filled in steps; downloads that fail in many ways |
| **Bit streams**, `bitwriter.c`, `bitreader.c` | buffer of words, accumulator, capacity; words and bits consumed, running CRC | `write_*`, `read_*`, growing, refilling from a callback | fast paths that keep the place in registers while functions move the buffer; stale bits; pessimistic room tests |
| **Frame coding**, `stream_encoder.c` 3193-4330, `stream_encoder_framing.c`, `fixed.c`, `lpc.c`, `format.c`, `stream_decoder.c` 2087-2920 | two workspaces for each channel, the best of them, loose mid-side state | evaluating subframes, choosing channels, writing and reading a frame | wasted bits, partition orders, parameter widths, values of a header that have no code: both sides must agree on every field |
| **Stream encoder**, `stream_encoder.c` | settings, buffered samples, verify FIFO, frame number, seek table of the client, output offsets | `set_*`, `init_*`, `process*`, `finish`, `delete` | calls of any size; one sample read ahead; every callback may fail; the header patched when the stream is complete |
| **Stream decoder**, `stream_decoder.c` | parser state, STREAMINFO, seek table, fixed block size, last frame, MD5 | `init`, `process_*`, `flush`, `reset`, `seek_absolute`, `finish` | damage and resynchronisation, chance sync codes, a search by guesses, callbacks that end or fail anywhere |
| **Metadata editing**, `metadata_iterators.c` | the file; an iterator's place; a chain of blocks in memory | level 1: `set_block`, `insert_block_after`, `delete_block`; level 2: insertions, deletions, `merge_padding`, `sort_padding`, `write` | in place or by a temporary file, two computations of which it is, "last" flags, padding arithmetic, failing writes |
| **Metadata objects** `metadata_object.c`; helpers (`crc.c`, `md5.c`, `bitmath.c`, ...) | - | sequential | - |
| Upload request `voice/rest/VoiceSender.java`, value classes, samples, the command line tools and bindings beside libFLAC | - | - | - |

How they interact: the application calls the service on its main thread. The
service makes a `VoiceRecorder` per session and gives it an `EventListener`.
`VoiceRecorder.start` posts the reader to a new `HandlerThread`. The reader
reads the microphone, looks for voice, feeds the encoder of the strategy; the
encoder calls `onEncoded`, the recorder `onRecording`, the service's listener
writes the cache file. At its end the reader calls `onRecordEnd`, where the
service's listener closes the file and deletes it, leaves it to the user or
starts a `BackgroundTask`, whose thread renames the file and posts it through
`VoiceSender`, whose requests pass the `Interceptor`. `FlacEncoder` uses
libFLAC's stream encoder through JNI: process calls put samples into blocks,
the frame coder makes a frame of a block, the bit writer its bytes; the
encoder's verification runs the stream decoder, which reads with the bit reader,
on what it has written. Seeking and metadata editing come with the library.

What makes each component correct:

* Recorder: `read` is never called on a released microphone; the microphone is
  let go on every path; nothing captured is lost or doubled; the encoder is
  closed; stopping is final; a recording is bounded; a stop is answered.
* Voice detection: its verdict agrees with the samples the encoder sees, up to
  a stated error.
* Service: audio goes where its policy says, in uploads of its own; one
  recorder holds the microphone; a returned stop has stopped; no call fails;
  what is to be sent is sent, or reported as not sent.
* Encoders: no native handle is used after it was freed, none is leaked, blocks
  reach the listener of their own session.
* Account: after a 401 the stored tokens are the newest ones the server gave;
  profile and token belong together; logins end.
* libFLAC: what is written is read back, bit by bit, frame by frame, stream by
  stream; the header, the seek table and the MD5 verdict are true; damage stays
  local; a seek lands on its sample and returns; an edit of the metadata never
  spoils the file around it.

## 2. Modules

| module | models | main state |
|---|---|---|
| `RecordingSession` | abstract: what one session promises its listener | `phase`, `captured`, `delivered`, `endState` |
| `VoiceRecorder` | one `VoiceRecorder` with its reader thread, microphone, clock and encoder | the fields of the class, `pc` of the reader, block counters |
| `VoiceRecorderService` | the service, all its sessions, cache files and senders | the fields of the service, `rec[r]` per session, `cache`, `sendFiles`, `content`, `tasks` |
| `SharedEncoder` | one `FlacEncoder` with its `LibFlac` object and native handles, and the sessions started with its strategy | the fields of the encoder, `native[h]` per handle, `at[r]` per reader, `file[r]` |
| `Account` | requests that renew tokens, logins, the preferences in memory and on disk; the account server as they use it | `at[u]` per request and login, `prefs`, `disk`, the server's `accepted` and `live` tokens |
| `LanguageList` | the list of languages, its file, callers and downloads, over many processes | `supportLang`, `caller[t]`, `file`, `downloads`, `up` |
| `VoiceDetect` | `isHearingVoice`, and the sample conversion of `libflac.c` | `block`, `i`, `heard` |
| `BitWords`, `BitWriter`, `BitReader` | words of bits; the two C interfaces as operators on a writer and a reader | - |
| `BitStream` | composes them: items are written, taken, and read through a callback | `bw`, `br`, the read `call` under way, `stream` |
| `Prediction` | channel decorrelation and the linear predictors, as functions | - |
| `FrameHeader` | a frame header byte by byte, both ways | - |
| `FrameCoding` | a frame as the encoder composes it and the decoder reads it; uses `Prediction` and `FrameHeader` | `work` per channel, `todo`, `loose`, `frame`, `reader` |
| `StreamEncoder` | the stream encoder from `new` to `delete`, with its client | `enc`, `tables`, `out`, `call` |
| `StreamDecoder` | the stream decoder and its client, over a file given by what stands where | `dec`, `call`, `result`, `heard` |
| `FlacFile` | a file of metadata blocks, header by header | `file` |
| `SimpleIterator`, `MetadataChain` | the level 1 and level 2 interfaces | `it`, `torn`; `chain`, `current` |
| `MetadataEditing` | composes them on one file, one at a time | all of these |
| `VoiceRecorderProofs` (with those of `VoiceDetect`), `VoiceRecorderServiceProofs`, `SharedEncoderProofs`, `AccountProofs`, `BitStreamProofs`, `StreamEncoderProofs` (with those of `Prediction`), `StreamDecoderProofs`, `MetadataEditingProofs` | theorems, section 4 | |
| `MC...` | constants for TLC | |

`VoiceRecorder` and each session of `VoiceRecorderService` are both shown to
implement `RecordingSession`. That is how the two levels compose: the service
uses of a recorder only what `RecordingSession` promises, plus when the lock is
free. libFLAC is cut along its own layers: `BitStream` is about bits,
`FrameCoding` takes a frame as fields with widths, `StreamEncoder` takes frames
as coded samples, `StreamDecoder` as items that are whole or damaged. A layer
uses of the one below what that one's properties say: items come back as they
were written; a frame decodes to its samples; a stream is its signal.

### VoiceRecorder

`pc` is where the session's thread is. `new` and `queued` are before `run`;
`top` is line 253 of `VoiceRecorder.java`, outside the synchronized block;
`encoding` and `encoded` are inside an iteration before and after
`Encoder.encode`; `ending` and `notifying` are the two halves of
`endRecording`; `done` is after `run`. `failed` is a `start` that threw,
`discarded` a Runnable that `thread.quit()` threw away, `crashed` an
`IllegalArgumentException` of `LibFlac.encode`.

The reader holds `lock` for a whole iteration, so `Stop` (another thread's) is
enabled only in `LockFree`. Java monitors are reentrant, so a `stop` made by a
callback of the reader is part of that callback's action (`CallbackMayStop`),
and `ReadWhileStopped` is a stop made inside `read`, which the repository's own
`MockAudioRecord` does.

An iteration is several actions: read and detect (`ReadLeadIn`,
`HearFirstVoice`, `ReadBlock`), encode (`Encode`, `EncodeFails`,
`EncodeCrashes`), and the limits (`CheckMax` after a voiced block, `CheckIdle`
after a silent one). The encoder may hold up to `Latency` blocks back and gives
them out in `EncoderRelease`, as libFLAC does in `finish`. Audio is counted, not
carried: the order of blocks is that of one thread.
`voiceHeardMillis = NotHeard` stands for `Long.MAX_VALUE`.

### VoiceRecorderService

`main` is the client's thread inside a call of the service, with its locals;
an action reads or writes at most one thing other threads can change. A
recorder, its strategy and the file its reader created are named by their
session. `cache[e]` is the file that the name `aimmatic-audio.e` leads to;
files keep their identity when they are renamed, deleted or overwritten, and
`content` tells which blocks of which session they hold. `sendFiles[m]` is the file
that a task has renamed to the millisecond `m` (line 364); a task that renames in the
same millisecond puts its file in the place of the other's, and both post it. A task is
queued, sending, answered, and done when it has told the listeners and deleted the
file. The post may be accepted, be refused, not arrive (an `IOException`, 428-430), or be
answered with what is not JSON, which nobody catches (426). `DiskFaults` is what the disk
refuses: to open the file, which is swallowed (202-204) and leaves `outfile` null for the
next block to fall over; to write a block, swallowed too (217-219), so that the session
goes on with a gap (`missed`); to close it (231-237). `Written(r)` is what came to the
file. The iteration of a
reader is cut at the callbacks of the service. `ClientReady` is how patient the
client is: it waits for nothing, for the `onRecordEnd` of earlier sessions, or
for quiet.

Left out of it: `recordSampleRate` and the location in the request, the
listeners of the client (they only observe), a rename or a deletion that fails though
the file is there (the task ends; nobody looks at the result of a deletion).

### SharedEncoder

The encoder belongs to the strategy, and a strategy may start many sessions:
the samples keep one for all of theirs. `FlacEncoder` has no lock. The lock of a
recorder orders its own reader and its own `stop`, but two recorders have two
locks, so the release by an old session's reader and the use by a new one's
interleave as they like.

`at[r]` is where the reader of session `r` is; each access to `libFlac` that
follows a check (`FlacEncoder.java` 60, 73, 82, 83, 84) is an action of its own.
A `LibFlac` object and a native handle are named by the session whose
`initialize` made them. The output of handle `h` is block 0, the header that
`init_stream` writes, and the blocks given to it; `given[h]` tells how far
`writeCallback` has got, at most `Latency` behind until `finish`. Output goes
where `encodingReady` leads, whichever session's audio it is. `fault` records
what kills the process: a null pointer, the exception for a missing
`initialize`, or a handle used after it was freed or with the `JNIEnv` of another
thread, which is undefined.

`overlapped` is a history variable: some session was started before the
`onRecordEnd` of an earlier one. The properties hold as long as it is false,
that is for a client that waits. A client may overlap, and then
`MCSharedEncoder_reused` shows what happens.

### Account

A request is the thread inside `Interceptor.intercept`; a login is one code that
the page hands to the login screen. `getAccessToken` reads token and refresh token
in two steps, and every network exchange is a step of its own, so renewals,
logins and reads interleave. `prefs` is what `SharedPreferences` shows to the process,
`disk` what `apply()` has written so far; `Die` is the end of the process, by the
system or by an exception in a callback: a fragment that was left has neither
activity nor view, and `onError`, called because `onSuccess` threw, throws again.

A pair of tokens is named by the request or login it was issued for; the server
is external. `Rotating` says whether it accepts a refresh token once only; the
code does not know, and the theorems hold for both. Three facts the code does not
prevent are kept as history, and the properties say what holds apart from
them: `lost` (a pair that was issued and never stored, or was in memory only when
the process died) and `overtaken` (a login while a request was renewing the
token of another account, which then stores that account's token over the new
one's). `prefs.login` is no preference but a note of who logged in last.

Left out: application and customer ids, which are only set and read; what the
server answers to a request it accepts. The second request of `intercept`
carries both `Authorization` headers, because `rebuildRequest` adds; the model allows
it any answer.

### VoiceDetect

One action per pass of the loop. Bytes are Java bytes, -128 to 127. `Loudness`
is the code's expression, `Sample` that of `libflac.c`; the properties compare
the verdict with the samples.

### BitWriter, BitReader, BitStream

A writer is a record of `buffer` (complete words), `accum`, `bits` and
`capacity`; an operator of `BitWriter` takes it through a C function, with the
test for room at its start. The bits of `accum` above `bits` are kept as the
code leaves them, since the fast path of `write_rice_signed_block` shifts and
ors without clearing. A reader keeps its buffer flat, with `consumedWords` and
`consumedBits` as places; the CRC is the sequence of bits fed to it, so that a
property can say which.

A read in `BitStream` is a `call` with its progress: whenever bits are missing it
waits (`NeedsClient`) until the callback (`Fetch`) hands out any number of bytes up to
the room, and the Rice block reader goes on from its own copy of the place. The
capacity of the reader is fixed and at least two words in the code and here.
Left out: byte order in memory, Golomb codes, skipping (reading without a value).

### FrameHeader, Prediction and FrameCoding

`FrameHeader` writes and reads the bytes of a header, its UTF-8-like number and
its CRC-8; these are functions. `FrameCoding` follows `process_subframes_`:
`BeginFrame` takes a block, derives mid and side, shifts wasted bits away;
`EvaluateCandidate` measures one way to code one channel and keeps it in the
workspace that is not the best one's; `ComposeFrame` chooses the assignment and writes
the frame as a sequence of fields, each of a kind, a width and a value. The
decoder's actions then ask for one field after the other, by its own rules;
`InStep` says that it asks for what is there. The analysis that proposes
predictors (windows, autocorrelation, quantization, guessed orders) is a choice
from the constants, because `evaluate_*_subframe_` measures every proposal before
it takes it. Wrong guesses are part of the model, wrong measurements would be
found. Sums of Rice bits follow the code's estimates. Escape codes and the search
of Rice parameters, switched off in this build, are left out; the decoder's side
of escapes with them.

### StreamEncoder

`call` is a process call with the samples it has left or a `finish` with the
part of the header it is about to patch; each step of it is one callback or one
frame, so a failure may come between any two. `enc` has the fields of
`protected_` and `private_`: `signal` the buffered samples with the one read
ahead, `fifo` the verification's. `out` is the output as units (marker, blocks,
frames) with sizes, and `tables` are the seek tables, which lie in the client's
memory and outlive a stream. Outputs differ by the callbacks they have: a
stream, a pipe that refuses to seek, a file, a client that forgot the tell
callback. `Miscodes` lets the coder produce a wrong frame: that is what the
verification is for.

### StreamDecoder

A file is a set of items (STREAMINFO, seek table, other block, frame, chance
sync code) with places, sizes and damage, and a length at which it may be cut.
`dec.at` is where the parser is and `dec.fetched` how far the read callback has
handed out, so that `flush` and `seek`, which drop what was read ahead, have
their effect. The search for a sync code stops at the `Nearest` frame or chance
code. A process call is a loop over the parser's states (`Running`, `Leave`,
`Continue`), of which an action takes one frame or block; a seek adds the bounds
(`SeekBounds`), the guess (`SeekAim`), and the look at what was found with the
narrowing (`SeekLook`). A damaged frame fails at its header or at its end, and may
hide or show what follows, as its item says. `WellFormed` says what the format
promises of a file all the same, and `FilesAssumption` asks it of the files: pieces
side by side, STREAMINFO once, and numbers of frames that count samples or blocks
of one size (`blocksize`), which STREAMINFO, coming before the audio, or the first
frame tells. Once STREAMINFO tells of two block sizes the decoder takes every number
for that of a sample, whatever the frame says (a concession to one old encoder), and
so do `Numbering` and, for such files (`Variable`), what is asked of them. `dec.sum` stands for the MD5 sum: how
many samples it was fed, and whether they were the signal's from the first on.

### Metadata editing

A block's header stands in one cell of the file, the rest of it and the body in
others, so offsets and overwriting are those of the code. `SimpleIterator`
computes the way of a write first (in place, by a temporary file, refused) and
then does it (`Doing`), where every single write may fail. What is written goes
through the buffer of stdio. Where the code seeks back and reads again a failed flush
is seen (`BreakingOff`); where it only closes the file it is not: the last flush of a
temporary file (`MovingCut`, `Rewrite`) and of a file written in place by name
(`WriteInPlace`). `torn` says that a write was not finished, `"in place"` or of a new
file that was then moved over the old one (`"cut"`); what clients do to such a file is
not followed further. A stream that was closed and not forgotten (`it.stream`) is
closed again by `SimpleClose`, which may end the process. `MetadataChain` keeps
the blocks and what was known of the file when it was read; `TempfileNeeded` and
`Prepared` are the two functions of the code that must agree. The two interfaces
take turns on the file, as `metadata.h` asks for.

### LanguageList

A caller is a thread in `getAllSupportedLanguage` (either form) and the search
that `getLanguage` adds; it reads the static field anew at each of its places.
Two of the built-in lines are kept as fields made of pieces between commas, so
that `Defaults` can split them as the code does. The file is absent, a list, empty
(opened, not yet written), the text `null`, or cut in the middle. A download is
asked for, has opened the file, or is over; an answer it cannot parse ends the
process, since nothing catches the exception on the HTTP client's thread. `Kill`
may come anywhere.

## 3. Runs

Every run is a `.cfg`. The one of kind "violation" shows a difference between a
statement of the repository and what its code does.

| run | instance | what it shows |
|---|---|---|
| `recorder_safety` | maximum 3, timeout 2, gaps 1 and 2, latency 2, checked and unchecked faults, reentrant stops, dying microphone, fair reader | nothing lost, stops final, refinement of `RecordingSession`, and that recordings and stops come to their end |
| `service_stops` | 2 sessions, one encoder, 2 blocks, client that waits for quiet, stops with both policies, every natural end, strategies that send, ask and cancel, a disk that refuses to open and to write, posts that fail | what is cancelled is not sent, with the one exception the code makes; what is sent is what was written, of one session; a returned stop has stopped; what is to be sent is sent or reported |
| `service_impatient` | 2 sessions, two encoders, client that waits for nothing, every kind of end, every disk fault, two milliseconds | what survives without any patience: the sessions' promise, and that two tasks post one file only under one name of one millisecond |
| `service_lost` (violation) | 2 sessions, client that waits for `onRecordEnd` only | section 6 |
| `encoder_shared` | 3 sessions of up to 2 blocks, latency 1, any client | no failing use, own streams, no leaked handle as long as sessions do not overlap |
| `detect_edges` | blocks of 0 to 2 samples over edge bytes, odd lengths | the error bound of the detector |
| `account_renew` | 2 requests, 2 logins of two accounts, a server that rotates refresh tokens | stored tokens work and belong to the last login; logins end |
| `bitstream_roundtrip` | words of 2 bytes of 2 bits, 2 items, reader of 2 words, memory of 5 words | what is written is exact and within memory, what is read is what was written, the CRC is over the bytes read |
| `frame_coding` | 7 blocks of up to 4 samples of 3 bits, 2 channels, fixed orders up to 2 and LPC, partition orders up to 2, parameters of 1 or 2 bits, 4 settings; headers at the boundaries of every code, damaged ones too | the samples come back; encoder and decoder agree field by field; headers read as written, and a damaged one is not taken for another |
| `encoder_lossless` | a signal of 5 samples, blocks of 2 and 3, 2 streams, 1 failure, 4 kinds of output, a coder that may go wrong | frames are the signal, no false alarm, header and seek points true |
| `decoder_damage` | 9 files of frames of 4 samples: without a table, with a true one and with one that lies, damaged, cut, of varying block size numbered in both ways, with chance sync codes; 4 calls, 1 failure | samples in their place, seeks land, find and end, damage is local, the MD5 verdict is worth something |
| `metadata_edits` | 3 files, new blocks of several sizes, room of 20 cells, failing writes, lost last flushes | the file stays sound unless a write was not finished, and then only what the write reaches is lost or it was the flush of a new file; edits do what was asked, padding is kept, the two computations agree |

Bounds, and why they are enough:

* Times are small units. With gaps of 1 and 2 and limits of 2 and 3 a block
  may end exactly at a limit, one past it, or step over it. `LeadIn` bounds the
  wait before the first voice; nothing is counted from it. A recording is
  bounded by the limits themselves (`BoundedRecording`), which keeps the state
  space finite; with `SpeechTimeout = 0` it is not, as `MCVoiceRecorder_silence`
  shows.
* `Latency = 2` is a FLAC encoder that may keep any of the last two blocks; 0
  would be `WavEncoder`.
* Two sessions are what the longest scenario needs: one leaves a file, the other
  disturbs or sends it. `MaxBlocks = 2` distinguishes a whole file from a part, and
  a gap at its beginning from one at its end. Two milliseconds let two tasks have names
  of their own or one name; they are only compared, so they are interchangeable
  (`SYMMETRY`, no liveness is checked there). A patient client has one task at a time,
  so `service_stops` needs one.
  `Patience` of a run is the assumption under which its properties hold; the
  violation drops it.
* In `encoder_shared` two blocks and a latency of 1 let a stream be behind in the
  middle, and be emptied by `finish`. Two sessions are what a conflict takes; the
  third starts with an encoder that was already released and made anew. Sessions
  are interchangeable (`Symmetry`); no liveness is checked there.
* Two requests can race for one renewal, or chain two of them, across two
  logins. A rotating server is the harder one: with the other kind no refresh token
  ever stops working.
* `EdgeBytes` lie on both sides of the changes of sign and of the run's threshold.
* In `BitStream` a word of four bits is filled, overrun by one and by a whole word
  with items of at most a word; two items meet at every alignment. A reader of
  two words is refilled in the middle of every read, by pieces of every size.
* In `FrameCoding` four samples divide into partitions of orders 0 to 2 with a
  warm-up of up to 2, three bits make parameters clip, and the blocks include
  constant, zero and shiftable ones. Header values lie on both sides of every
  boundary of the codes (192, 256, 65535, 65536; 255000, 65535 and multiples of 10).
* In `StreamEncoder` five samples are two blocks of 2 and a rest, or one of 3 and
  a rest, and one more than a multiple, so the sample read ahead is seen at a
  boundary. Two streams show what the first leaves behind.
* In `StreamDecoder` four calls are metadata, a seek, a continuation and a flush,
  reset or second seek. `Patience = 1` stands for the 20 unparseable frames a seek
  bears. Targets are first, last and inner samples of frames and one past the end.
* In `MetadataEditing` the room lets a file have four blocks with paddings of
  every length that decides: less than a header, a header exactly, more.
  `VIEW MCView` leaves the last call out of the identity of a state: no guard and
  no invariant reads it, and TLC evaluates the action properties on every
  transition, also to a state that is known.

Fairness: `FairSpec` of `VoiceRecorder` is weak fairness of the reader: its
looper thread is scheduled, and a read returns. Nobody has to start, to speak or
to stop. `FairSpec` of the service is weak fairness of a call that was made, of
the senders, and of every reader except in `top`, where it may be listening to
silence for ever; seeing the stop flag there is fair. The monitor's lack of
fairness towards a waiting `stop` is not modelled: `StopEnds` starts where the
flag is set. `RecordingEnds` excepts a microphone that dies: with a `read` that
fails for ever the loop looks at no limit. In `Account` a request or login that was
begun goes on: every network call has a timeout. In `StreamDecoder` a call that
was begun goes on, as it is one thread; `CallsEnd` then says that it ends. The
others need no fairness.

Deadlock is checked in the runs of `VoiceRecorder` and `VoiceDetect`
(`Terminated` is where they may stop). Elsewhere the bounds on sessions, items,
frames, calls and room, or a crash, stop the system, so it is switched off there.

### Configurations and properties to check by hand

Some `.cfg` files belong to no run. `LanguageList.cfg` (one thread, 4 codes, 2 downloads at a
time, every state of the file at the start) passes: every call gives a complete
list (`ListUsable`), a stored list stays (`StoredStays`), and there is one in the
end unless the file was cut in the middle (`StoredInTheEnd`). Its `FairSpec` needs
help from the world: the app is started again and again, some of its processes
begin with a call that has a context and get to its end, some downloads are
answered with a list and stored, each after any number of failures; without any of
these no code could fetch a list. Three changes of that configuration are violated
and documented in section 6: `CarriesItsCode` as the invariant, `CutIsRepaired` as
the property, and `Threads = {ui, worker}` with `Spec` and `ListUsable` alone.

The other configurations are violated, and section 6 says why:
`MCVoiceRecorder_silence`, `MCVoiceRecorder_quit`, `MCVoiceRecorderService_stale`,
`MCSharedEncoder_reused`, `MCStreamDecoder_unsized`, `MCMetadataEditing_copied`,
`MCMetadataEditing_flush`.

The modules also state invariants that no run lists, because a theorem has them
or another property is the deeper one. On the instances above they hold: every
`TypeOK` and `IInv`; `MicThereToRead`, `MicReleased`, `EncoderClosed`,
`BoundedRecording` of the recorder; `OneMicrophone` of the service (`NoCrash`, which its
callers would wish, fails: by an open that was refused, an answer that is not JSON, or a
stop beside a natural end);
`RequestEnds` of `Account`; `Decides` of `VoiceDetect`; `ReaderInside`,
`ReadsWhatIsThere`, `ReadingEnds` of `BitStream`; `EstimateHonest` of
`FrameCoding`; `OnABlock` and `ChainKnowsFile` of `MetadataEditing`, and its `IInv`
with `Blocks(file)` for the list that `FileInv` says there is.

## 4. Proofs

The proof modules are checked by `tlapm` to the last leaf, from the named
assumptions of the modules only (`TimesAssumption`, `EncoderAssumption`,
`SwitchAssumption`, `ServiceAssumption`, `SharedAssumption`, `AccountAssumption`,
`DetectAssumption`, `DecoderAssumption`, `FilesAssumption`, `WordAssumption`,
`WriterAssumption`, `ReaderAssumption`, `ItemsAssumption`, `PowerAssumption`,
`FileAssumption`, `ClientAssumption`, `StartsAssumption`): limits are natural numbers, gaps are positive
and bounded by `MaxGap`, blocks are sequences of bytes, and so on. `PowerAssumption`
(2^0 = 1 and 2^n = 2 * 2^(n-1), for n up to the width of a word) restricts nothing: it
is what `^` means, of which the provers know nothing.

**Recorder** (`VoiceRecorderProofs`). The invariant `IInv` has three parts
besides types and `BoundedRecording`.

* `LockInv`: microphone and looper thread come and go together, and after they
  were there the flag tells that they left. `MicThereToRead` alone is not
  inductive: a stop needs `thread` to raise the flag, so one has to know that
  `thread` is set whenever the microphone is.
* `AudioInv`: `delivered + held = captured` as long as encoding did not fail,
  and how `voiceHeardMillis`, from which the code concludes whether to release
  the encoder, relates to what was captured. `AudioComplete` needs exactly that
  the encoder is released whenever it holds something.
* `TimeInv`: between two iterations the last voice is at most the maximum after
  the first one, and now is at most the timeout after the last voice; inside an
  iteration one gap more. `BoundedRecording` follows.

Each part is preserved action by action in a lemma of its own. `StopFinal` and
`ImplementsSession` are step properties: every step from a state with `IInv`
keeps the stop final, and maps to a step of `RecordingSession` or to a stutter.

**Service** (`VoiceRecorderServiceProofs`), for any number of sessions and tasks
and the most impatient client. `IInv` adds to the types what the client's thread
has in hand (`MainInv`), how far a reader is and what that says of its blocks
(`SessionInv`), and `FileInv`: a file has at most one name, be it that of the cache or a millisecond
(`NamesInv`), a session that has not created its file has no file anywhere, and what was
posted under a millisecond has no other name than that from then on (`PostedInv`).
`SentOnce` alone is not inductive: it looks at the past, and a file that was posted must
not come into the hands of a task under another name; `TakeFile` gives names to what the
cache has, and `OpenFile` puts a new file there, which must be nowhere else.
`SessionMoves` says what any step does to
any session; `SessionsImplement`, the refinement of `RecordingSession`, follows.

**Patient client** (the second part of `VoiceRecorderServiceProofs`), for `Patience = "quiet"`. That a stop
stops and the microphone has one owner (`PatientStops`, `PatientMicrophone`)
rests on `Quiet`: at most one session is not over, and as long as it has the
microphone it is the one in the field and the one a stop has in hand. For
`PatientCancels` and `PatientSends` (`Patient`) sessions end by the user's stop alone and
closing does not fail; files that cannot be opened, blocks that cannot be written and posts
that fail are included, and what is sent is then `Written`, without the gap. `StopInv` follows
the one `stopPolicy` field from the stop to the decision it is read for.
`BusyInv` says that at most one session is busy - not over, or with a task that is
not done -, that at most one task is under way, and that what lies in the cache is its
file; so the task finds the right file, nobody takes its name, and `AudioInv` that the file holds the audio of its session and nothing
else. The restrictions are needed. With natural ends a session that was cancelled by a limit
leaves its audio behind (239-243 delete only after a stop), and `CancelledNeverSent` has an
exception for it, `LeftBehind`, that the theorem does not use; that the property holds with
it is checked by `service_stops`, and that the doc's statement, without exception, does not
(`CanceledIsNotSent`) by `MCVoiceRecorderService_stale`. With "close" among the faults
`SendsOwnAudio` fails, since the listener gives up before it deletes or sends; with less
patience, `Patience` "none" or "notified", all but `OneMicrophone` fail.

**Shared encoder** (`SharedEncoderProofs`). That a stream is whole at the end
rests on who owned the encoder all the way. `IInv` adds, as long as no sessions
have overlapped, that at most one is going on (`OneAtATime`) and, for every place
of its reader, what it has of the encoder (`SessionInv`): whether `libFlac` is its
object, the state of its handle, how much of its stream is out, and that its file
holds exactly that. `StepsAlone` says that every step that keeps `overlapped`
false is made by the one session that is going on or starts; `OwnStep` and
`OwnWriteStep` that this session keeps its part; `OthersKeep` that the others,
which have nothing of the encoder, keep theirs. `TypeStep` holds for overlapping
sessions too. The number of sessions, of blocks and the latency are arbitrary.

**Account** (`AccountProofs`). A refresh token that was used up has a successor,
which is either stored or about to be. That is not inductive without `PairsInv`:
nobody knows a pair before it is stored, so nobody can use it up. `OwnerInv`
follows whose token each renewal under way will store, through reads that may see
halves of two pairs.

**Detector** (`VoiceRecorderProofs`, second part). `LoudnessError` and `PairBytes` bound what
one pair can be off; `ScanInvariant` says that every pair before `i` was found
quiet, and the two theorems are its consequences for blocks of every length.

**Prediction** (`StreamEncoderProofs`, last part), for signals of any length and size, which
TLC sees four samples of. Mid and side give left and right back, and fit the
widths the frame gives them; a fixed predictor widens a residual by at most
2^order; what `Restored` computes from warm-up and residual is the signal, for
every fixed order and every quantized predictor. `Restored` is a recursive
function, and the library's induction rules cannot be used; the proofs take the
least place where the restored signal differs from the original (`LeastNumber`,
from the well-foundedness of <) and show that there is none.

**Bit writer** (`BitStreamProofs`), for words of any width of at least four bits,
items of any size and every capacity, increment and limit of memory, where TLC sees
words of four bits. `WriterInv` says that between two calls the accumulator is
not full and the buffer has a word of room for what is in it, that while items are
written `BufferBits` is exactly `Codes(items)`, and that after padding only zeroes
follow. `WriterExact` follows; by itself it is not inductive, as it says nothing of the
room. Each function of `BitWriter` gets a lemma of the form "fails, or adds exactly these
bits" (`Puts`). Two things have to be shown for that. The accumulator keeps the bits of
the word before above those that count, and every path shifts them out before the word
is complete (`Accumulates`, `Completes`). And the tests for room compare
the capacity in words with a number of bits; whenever such a test lets a function pass
without growing, the words it will fill are there all the same (`Ensures`). The fast path of the Rice block takes no word of its own and stays
below a full one, which is why it may skip the test. The loops over a block's
residuals and bytes are recursive functions, unfolded like those of the encoder, and
the first round that would go wrong does not exist (`LoopPuts`).

**Bit reader** (`BitStreamProofs`, second part), for the same words and items, and for
a callback that brings pieces of any size at any time. `ReaderInv` says where the reader
is: its place in the stream (`Pos`) is where the codes of the items it has returned end,
plus what the call under way has read of the next code (`Progress`), and its buffer is
the piece of the stream that ends with the last byte fetched (`Loaded`). `RoundTrip` is
one conjunct of it and not inductive by itself: that the next item will be the right one
depends on the place, and inside of a Rice block on which part of which residual has been
read. In the fast loop the place is in the registers of the call and the reader's own
fields are stale; `Live` is the reader with the registers put back, and what each action
does is said of it once (`Moves`). Since `Pos` does not change when a refill moves the
rest of the buffer to its front, each read has only to find its code in what is there
(`Ahead`): a unary number is found by its stop bit (`StopBitsAre`, `UnaryScans`), a
residual by stop bit and binary part in a word, over the edge of two words, or up to the
end of the complete words (`FastValue`, `FastSpent`, `RicePartRead`). Last, `Number` gives back what
`Binary` wrote (`NumberOfBinary`) and `Unfold` what `Fold` folded.
`CrcCoversHolds` needs that the CRC has every bit from the reset up to a place
(`CrcPlace`) that is not beyond what was read, through words passed in
the loop, words passed by a read that crosses them and a tail that is moved by a refill;
`CrcUpTo` says it as long as no block of bytes was read, as in the code.

Two theorems say what a client of the reader relies on without a word. `ReadsWhatIsThere`:
a read fails only if the client's bytes end before the item does. When more bytes are
needed (`NeedsClient`), less than a word is unconsumed and the next item ends beyond what
was fetched (`ClientNeeded`), because no read asks for a bit it does not return; so a
buffer of two words, which `ReaderAssumption` asks for, has room (`RoomIsLeft`) and only
the end of the stream can refuse. `Refused` is that with the fact that a refused reader
moves no more (`NothingFollows`). `ReaderInside` adds what
`ReaderInv` leaves out, as it speaks of `Live` only: in the fast loop the stale fields,
from which a refill starts once the registers are written back, must be inside of the
buffer too. `Inside` says it, with the size of the buffer and that it holds whole bytes;
a refill (`FetchInside`) then fits, and every other step is `Tidy`: it
leaves the buffer alone and never stands behind the last bit of a word (`WithinWord`).

**Stream encoder** (`StreamEncoderProofs`), for every signal, block size, list of
metadata, sequence of calls and failure, with a coder that may go wrong. `LosslessHolds`
and `NoFalseAlarmHolds` rest on one equation, `SamplesAt`: what the client handed over
is what the frames written so far decode to, followed by what is in the encoder's
buffer, followed by what the call under way has left; and the verification's fifo
holds exactly the buffer. `Buffers` says it of a stream that is going on, `Results`
what of it stays true once the stream was given up or finished, `Control` which states
and calls go together. None of them is inductive without the other two: an encoder in
"OK" under finish must have an empty buffer for the finished stream to be whole, and
the fifo has room only because the buffer never exceeds the block size `init` chose.
`HeaderTrueHolds` needs a second invariant. `HeaderTrue` is about the end, when the
fields of the header have been written over one after the other, so `HeaderInv` follows
the header from its beginning: what is out and what initialization has still to write
are together a well-formed header (`Layout`: STREAMINFO second, one last block); the
encoder's own counts are those of the frames that are out (`Measured`); the offsets it
remembers lead to the blocks of their names (`Found`), so that an update never hits a
frame; and what finish has updated so far is true (`Due`).
`SeekPointsTrueHolds` needs a third, `SeekInv`, which was a run's invariant before it was
proved. While frames are written the index of the next point cuts the client's table in
two (`Pointed`): the points before it lead to frames that are out, those from it on are in
order and ask for samples that are not, and points of one sample are the same point,
which is what allows the sort to drop one. The points name offsets from the first frame,
the encoder tells positions from the beginning of the file; `AudioAt` says that the two
differ by the length of the header, which `HeaderAt` follows through initialization, where
an audio offset of 0 keeps write_frame_ from marking points too early. The sort of
`FLAC__format_seektable_sort` is defined by ranks, the number of points before a point;
`RanksReached`, from the library's theorems on injections of finite sets, says that every
place has its point. At the end of the stream a point past the end is whatever the client
asked for, and the theorem says nothing of where it leads. `EncoderAssumption` asks that a
placeholder's number, 2^64 - 1, is the largest a point can have and more than a stream
has samples.
The model's recursive functions
(`AudioOf`, `Position`, `Starting`) are unfolded by `Recursion`, a recursion theorem
for a finite number of steps, which like `LeastNumber` rests on the well-foundedness
of <. `EncoderAssumption` asks of the sizes of frames only that they are positive and at
most what `min_framesize` starts from, 2^24 - 1, as the field of the header that
takes them is 24 bits wide.

**Decoder** (`StreamDecoderProofs`), for every sequence of calls and every failure.
The invariant `Inv` has three parts, one for each of the first three theorems.

* `IInv`, for `SeekReturnsTarget`: `SeekUnderWay` says for every phase of the search
  that nothing has been written yet or exactly the hit has, and that the target of
  the decoder is still that of the call. It holds of every file, whatever its items,
  its table and its damage.
* `Told`, for `SumIsOfTheSignal`. `Md5Vouches` is about the moment finish returns.
  Until then `Summed` says that a sum that is still kept is that of everything the
  client was told, and that it is kept as long as the pass was not moved and the
  file has a sum; the second half is what a finish that compares nothing, and
  returns true, would break. A sum is also given up when a frame comes before
  STREAMINFO, and with `Known` a later STREAMINFO would show it.
* `Place`, for `SamplesInPlace`. The number of a frame is multiplied by a block size
  that comes from STREAMINFO or from the first frame of the pass. `Sizes` says that
  what is remembered is the file's block size, and `Ahead` that a pass from the start
  that knows neither has still to come by one of them: at the magic word or a block
  in front of STREAMINFO, or at the first frame. `InPlace` is not inductive without
  it: a frame read first whose number is not 0 would be numbered by its own size.

Reading, skipping, resynchronising, failing and most of a seek disturb none of this;
such a step is `Quiet` (or, in a seek, `Sought`), which is shown once to keep the
three parts, and the lemmas named `...Form` say which ways an action has to end. `Told` and
`Place` need `FilesAssumption`, `IInv` does not. It leaves damage free: a
frame that is damaged may have any number, as may a chance sync code. A file whose
good frames are misnumbered, or that has a second STREAMINFO, is outside of it, and
no decoder can number it rightly.

`DamageStaysLocal`, that a pass gets every whole frame, rests on a fourth invariant,
`Local`, which is inductive next to `Inv`. For a pass that was neither moved nor failed it
says where the decoder stands: searching, at a byte inside of no frame that is read to its
end (`AtEdge`); reading, at a frame or chance sync code of which the same is true
(`AtFrame`); and every whole frame was got or begins there or later. The first half is
what keeps a chance sync code inside a good frame from ever being found. `SignalLeft` adds
that while whole frames are missing the count of samples has not reached the total, since
`frame_sync_` ends the stream without a look at the file when it has. The theorem is about
files for which `Undisturbed` holds, and the property says so. Besides types, and that a
good frame is read exactly to its end, it excludes the ways in which a decoder that works
as written does lose a whole frame: a damaged frame or a
chance sync code that is read beyond the next frame's beginning, one that carries the number
of the last samples (with a total), and a tag directly in front of a frame without an audio
file's mark between them. A chance sync
code *inside* a readable frame is free to do any of it. The nine files of the run are
`Undisturbed`, damaged and cut as they are (`FilesUndisturbed` in the MC module).

**Metadata** (`MetadataEditingProofs`), for files of any blocks, any edits through either
interface and any failures. A file is read as the list of blocks it came from:
`FileOf` writes a list, `Blocks` reads it off the file again (`ReadBack`), and
`FileInv` says that the file, as long as every write was finished, is `FileOf` of a
well-formed list (`Known`) on a block of which the iterator stands (`Stands`), and
`TornInv` that a write in place that was not (`BrokenOff`) has spared prefix and audio:
it writes no more cells than its blocks' place has (`Room`). Of a new file whose last
flush is lost nothing is claimed; the theorems say when that may happen. `StaysSound` is
not inductive without the iterator's part - an edit of level 1 writes where the
iterator believes to stand - and the iterator's part needs that it looks again after
every write. Each way to write is then an equation between files: overwriting the image
of some blocks by that of others of the same total size is the file of the list with
these in their place, and so is copying, inserting and copying on, flag patched
(`Rewritten`). What remains is arithmetic of sizes: `PlanDone` says of every plan of
level 1 that it `Yields` the list that was asked for, padding split, swallowed or given
up. For level 2, `Kept` says that the chain is well-formed in memory and knows what its
file takes. `RemovedIs`, `AppendedIs`, `InsertedAfterKnown` follow the "last" flag;
`PreparedIs` goes through the cases of the preparation once and finds the check for a
temporary file in each of them; `MergedIs` and `SortedIs` follow the walks over the
chain block by block, by the recursion theorem that also unfolds `TotalSize`, `Image`,
`Content` and `Blocks`.
Two conditions are stated and needed. `Unmarked`, the hypothesis of these theorems: the
blocks a client brings do not claim to be the last ones, which is so for new objects and
not for clones; `MCMetadataEditing_copied` (section 6) is what happens otherwise. And in
`ClientAssumption` a client keeps the metadata below what one length field holds
(`MaxRoom < LengthLimit`, 16 MiB): padding is merged without a look at the field, which
takes the sum modulo its width.

Not proved, only model-checked: liveness (`RecordingEnds`, `StopEnds`,
`WishedAudioSent`, `LoginEnds`, `CallsEnd`), which TLAPS does not do under
fairness; `CancelledNeverSent` and `SendsOwnAudio` with natural ends; frames,
the language list (`FrameHeader`, and with it `FrameCoding`, uses bitwise operators, which
the provers do not know); that the decoder's seeks find their target
(`SeekFinds`), which depends on how far guesses reach in a particular file, and on the
points of its seek table being true (`TrueTable`): with the table that lies a seek still
ends (`CallsEnd`) and lands on its target when it says so (`SeekLands`), but it may fail.

## 5. Not modelled

See `components` in `PROJECT.json`; the reasons in short:

* Value classes, the setters of the strategy, the samples and the upload request
  are sequential. The list of listeners is an unsynchronized `ArrayList`: any iteration beside an addition or
  removal may throw, which a model would only repeat.
* Of `libflac.c`: the global reference that `init` makes and nothing deletes
  (line 119), the size of the static array `pcm` (109), `convertRawPCM`, which
  nobody calls.
* Of the service: the location lookup (line 376 uses a provider that may be
  null), a rename or a deletion that fails though the file is there (365, 440), the
  deprecated calls, which multiply in 32 bits (135).
* Of libFLAC: Ogg and the x86 routines, which this build does not compile;
  `metadata_object.c`, sequential editing of one block in memory; the numerical
  analysis; CRC and MD5 as arithmetic (they appear as the bytes or samples they
  have been fed); level 0 of the metadata interface; the depth stack of
  `simple_iterator_set_block`; running out of memory in the metadata editors and
  in the bit reader.
* The command line tools, C++ bindings, player plugins and tests that ship with
  the library: nothing of them is in the application. They are the larger part
  of the C files.

## 6. Where code and documentation differ

| configuration | code | statement |
|---|---|---|
| run `service_lost` | an old session's end forgets the new recorder; stop has nothing to stop | doc of `stopRecordVoice` |
| `MCVoiceRecorder_silence` | the maximum is not looked at after a silent block | README: total duration from the first voice until the end |
| `MCVoiceRecorder_quit` | a stop before the looper's first dispatch drops the reader | README: `onRecordEnd` is called when the user stops |
| `MCVoiceRecorderService_stale`, `CanceledIsNotSent` | audio a limit cancelled stays in the cache file and a later session sends it | doc of `POLICY_CANCELED` |
| `MCSharedEncoder_reused` | a stopped session releases the encoder that a new one has initialized | message of `FlacEncoder.encode`: initialize has not been called |
| `MCStreamDecoder_unsized` | the upper bound of a search in a file without a total is corrected only if the first look is behind the target; seeks fail that could succeed | comment at `stream_decoder.c:3161` |
| `MCMetadataEditing_copied` | `iterator_insert_node_after_` (`metadata_iterators.c:1056-1081`) does not clear `is_last` of the block it inserts, as `iterator_insert_node_` does; a clone of a last block put in the middle ends the metadata there | `metadata.h:697-699` on copying blocks |
| `MCMetadataEditing_flush` | the result of `fclose`, which flushes what was written, is ignored after writing in place (`metadata_iterators.c:1377`) and before the temporary file is renamed over the original (3299): `chain_write` returns true though the file is as it was, torn, or a beginning of the new one with the audio cut off | `metadata.h:967-969`: `true` if the write succeeded |
| `LanguageList`, `CarriesItsCode` | built-in lines are split at commas inside quotes too (`Language.java:110`); a language found for `cmn-Hans-HK` carries a piece of its name as code | doc of `getBcp47Code`, `Language.java:143` |
| `LanguageList`, `CutIsRepaired` | a file cut in the middle raises an exception that skips the download (`Language.java:215`): it is never repaired | none: wanted, not promised |
| `LanguageList`, two threads | the static array is published before it is filled (line 108), and a null read from the file is stored in the field (210): a second thread gets either | none: nothing is said of threads |

Three properties of `StreamEncoder` are statements of its documentation that the
code does not keep; they are in no run: `FinishTellsMismatch` (`finish` may
return true after a verify mismatch that a process call met,
`stream_encoder.c:1422-1488`), `FileClosed` (`init_file` leaves the file open when
it fails before it takes it over, 1301-1308) and `OwnSeekTable` (the pointer to a
seek table stays from an earlier stream).

Seen while modelling, allowed by the models:

* Service: `stopRecordVoice` reads `voiceRecorder` again after its check, and a
  natural end in between makes it null (`NoCrash` needs a client that does not stop
  then); a stop that races a natural end may lose audio that was to be sent; the
  one cache file and the one `stopPolicy` are shared by sessions that overlap;
  `onUserChoice` goes by the last strategy, whichever session is answered; a file whose
  request raised an `IOException` is deleted unsent (428-430, 440); a block that could not
  be written is missing in the upload, and nobody is told (217-219); a file that could not
  be opened is a `NullPointerException` at the first block (202-204, 216); two tasks of one
  millisecond share a name, so that one file is posted twice and the other is lost
  (364); an answer that is not JSON kills the process (426).
* Recorder: a first block that a custom encoder refuses leaves the encoder
  initialized (`VoiceRecorder.java` 268-273, 299); with a microphone that fails
  for ever no session ends; the low byte of a sample is taken as signed by the
  detector (the error `detect_edges` bounds by 256).
* Account: late renewals overtake a login; the profile of the account before
  stays if the new one's cannot be fetched.
* Stream encoder: a stream without samples keeps the absurdly high minimal frame
  size in its header; seek points past the end keep what the client put there; a
  process call after an error codes the buffered block again.
* Frame headers: the number's first byte may be 10xxxxxx (`bitreader.c` 949 ff);
  a legal header may contain a sync code (block size 65529), which the comment at
  `stream_decoder.c:2174-2177` denies; the decoder accepts partitions as short as
  the predictor order, the encoder never writes them.
* Stream decoder: `process_*` returns false on damage it recovers from; `finish`
  with MD5 checking is false for a stream without STREAMINFO; a chance frame with
  a huge number may end a stream early; after a flush before any metadata a short
  last frame gets a wrong number; after the write callback aborts, the state stays
  `READ_FRAME`.
* Metadata: after a failed rename `FLAC__metadata_simple_iterator_delete` closes a
  stream that is closed already (`metadata_iterators.c:3121-3124`, 379-380); level 1
  calls that move the file may succeed though its last flush was lost (3299); an
  iterator without memory for a padding block returns a nonzero status, which is taken
  for success (2890-2891); `delete_block` without padding does not look whether the file is
  writable; a failed rename of a chain's file sets no status; `set_block` of level 2
  with a STREAMINFO in a wrong place deletes the old block and returns false;
  merged padding may exceed the length field (an assertion only).

Read off the code of `metadata_object.c` without a model of it: `copy_vcentry_` (134)
and `copy_track_` (153) write into the row before they ask for memory, though the
comments at 269 and 416 say that a failure leaves the object untouched; a clone of a
cue sheet that then fails frees the indices of its source; and
`cuesheet_track_delete_index` returns true when it ran out of memory, where
`metadata.h:1953` says false.

## 7. Running it

In this directory, `tlc -config <run>.cfg <module>` for a run of `PROJECT.json`
and `tlapm <module>Proofs.tla` for a proof module. The longest run takes about two
minutes; the proofs of the metadata edits take about six minutes, the others less.
