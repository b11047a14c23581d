--------------------------- MODULE MCSettlement ---------------------------
(***************************************************************************)
(* Two replicas and, in each behaviour, two or three results: the early    *)
(* and the completed sentence of a chunk, the same chunk number in two     *)
(* rooms, sentences without a chunk, a dub repeated in the cloned voice,   *)
(* the same line translated live and afterwards, and what is never charged.*)
(***************************************************************************)
EXTENDS Settlement, TLC

CONSTANTS r1, r2, room1, room2

Live(room, speech, segment, part, chunk, early, span, seconds) ==
    [stream |-> "live", room |-> room, lang |-> "ja", content |-> "speech",
     speaker |-> "user", chunk |-> chunk, early |-> early, segment |-> segment,
     part |-> part, span |-> span, voice |-> "default", speech |-> speech, seconds |-> seconds]

Early == Live(room1, "a", "s1", "s1-0", "c1", TRUE, 0, 15)
Final == Live(room1, "a", "s2", "s2-0", "c1", FALSE, 4, 15)
Other == Live(room2, "b", "s3", "s3-0", "c1", FALSE, 12, 12)
OldEarly == Live(room1, "d", "s4", "s4-0", None, TRUE, 0, 9)
OldPart1 == Live(room1, "d", "s5", "s5-0", None, FALSE, 9, 9)
OldPart2 == Live(room1, "d", "s5", "s5-1", None, FALSE, 9, 9)
Garbled == Live(room1, "e", None, "x-0", None, FALSE, 0, 0)
Marker == [Final EXCEPT !.speaker = "system", !.speech = "f", !.chunk = None, !.segment = "s6", !.part = "s6-0",
                          !.span = 15]
Dub(voice) == [Live(room1, "s1-0", "s1", "s1-0", None, FALSE, 0, 11)
               EXCEPT !.stream = "dub", !.voice = voice, !.seconds = IF voice = "cloned" THEN 13 ELSE @]
DubNoRef == [Dub("default") EXCEPT !.segment = None, !.part = "x-0", !.speech = "x-0"]
Reused == [Dub("default") EXCEPT !.content = "reused"]
Later(content) == [Live(room1, "g", "s5", "s5-0", None, FALSE, 9, 9)
                   EXCEPT !.stream = "backfill", !.content = content]
LaterBad == [Later("speech") EXCEPT !.segment = None, !.part = "x-9", !.speech = "h"]
LaterAgain == [Later("speech") EXCEPT !.part = "s5-9"]

MCSays == <<Early, Final, Other, OldEarly, OldPart1, OldPart2, Garbled, Marker,
            Dub("default"), Dub("cloned"), DubNoRef, Reused,
            Later("speech"), Later("correction"), LaterBad, LaterAgain>>
MCMessages == 1..16
MCBatches == {{1, 2}, {2, 3}, {4, 6}, {5, 6}, {7, 8}, {9, 10}, {11, 12}, {5, 13}, {13, 16}, {14, 15}}
MCReplicas == {r1, r2}
MCSymmetry == Permutations(MCReplicas)
MCRooms == {room1, room2}
=============================================================================
