------------------------ MODULE MCInterpreterTracks ------------------------
(***************************************************************************)
(* A bridged room in which ja is listened to until it is not (en is what is *)
(* dubbed when nobody chose), with a speaker who declared en and is among   *)
(* those who listen, or who did neither.                                    *)
(***************************************************************************)
EXTENDS InterpreterTracks

CONSTANTS en, ja, shared, picked, stock, cloned

MCLanguages == {ja, en}
MCDubbed == {ja}
Scene(said, own) == [listen |-> {ja}, registered |-> own, declared |-> said]
MCScenes == {Scene(en, TRUE), Scene(None, FALSE)}
MCVoices == {shared, picked}
MCKinds == {stock, cloned}
=============================================================================
