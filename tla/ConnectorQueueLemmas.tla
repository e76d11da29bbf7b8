------------------------- MODULE ConnectorQueueLemmas -------------------------
(***************************************************************************)
(* What the log records of ConnectorQueue do to an image.                  *)
(***************************************************************************)
EXTENDS ConnectorQueue, TLAPS

(* `put` queues the new ids as pending and touches nothing else (apply).   *)
LEMMA PutFacts ==
    ASSUME NEW img \in Image, NEW S \in SUBSET Ids
    PROVE  /\ Put(img, S) \in Image
           /\ Queued(Put(img, S)) = Queued(img) \cup S
           /\ Put(img, S).dedupe = img.dedupe
           /\ \A st \in {"syncing", "synced", "failed"} :
                 InState(Put(img, S), st) = InState(img, st) \ S
BY DEF Image, Put, Queued, InState, States

(* `set` moves entries between states; it neither adds nor removes one.    *)
LEMMA SetToFacts ==
    ASSUME NEW img \in Image, NEW S \in SUBSET Ids, NEW st \in States
    PROVE  /\ SetTo(img, S, st) \in Image
           /\ Queued(SetTo(img, S, st)) = Queued(img)
           /\ SetTo(img, S, st).dedupe = img.dedupe
           /\ InState(SetTo(img, S, st), st) \subseteq InState(img, st) \cup S
           /\ \A other \in States \ {st} :
                 InState(SetTo(img, S, st), other) \subseteq InState(img, other)
BY DEF Image, SetTo, Queued, InState, States

(* `prune` moves entries to the dedupe index.                              *)
LEMMA PrunedFacts ==
    ASSUME NEW img \in Image, NEW S \in SUBSET Ids
    PROVE  /\ Pruned(img, S) \in Image
           /\ Queued(Pruned(img, S)) = Queued(img) \ S
           /\ Pruned(img, S).dedupe = img.dedupe \cup S
           /\ \A st \in States : InState(Pruned(img, S), st) = InState(img, st) \ S
BY DEF Image, Pruned, Queued, InState, States

(* Forgetting touches the dedupe index only.                               *)
LEMMA ForgottenFacts ==
    ASSUME NEW img \in Image, NEW F \in SUBSET Ids
    PROVE  /\ Forgotten(img, F) \in Image
           /\ Queued(Forgotten(img, F)) = Queued(img)
           /\ Forgotten(img, F).dedupe = img.dedupe \ F
           /\ \A st \in States : InState(Forgotten(img, F), st) = InState(img, st)
BY DEF Image, Forgotten, Queued, InState, States

(* Recovery only turns `syncing` into `pending` (load).                    *)
LEMMA RecoveredFacts ==
    ASSUME NEW img \in Image
    PROVE  /\ Recovered(img) \in Image
           /\ Queued(Recovered(img)) = Queued(img)
           /\ Recovered(img).dedupe = img.dedupe
           /\ \A st \in {"synced", "failed"} :
                 InState(Recovered(img), st) \subseteq InState(img, st)
           /\ InState(Recovered(img), "syncing") = {}
BY DEF Image, Recovered, SetTo, Queued, InState, States

(* A process that is down knows nothing.                                   *)
LEMMA EmptyFacts ==
    /\ Empty \in Image
    /\ Queued(Empty) = {}
    /\ Empty.dedupe = {}
    /\ \A st \in States : InState(Empty, st) = {}
BY DEF Image, Empty, Queued, InState, States

(* The parts of an image are sets of event ids.                            *)
LEMMA ImageFacts ==
    ASSUME NEW img \in Image
    PROVE  /\ Queued(img) \subseteq Ids
           /\ img.dedupe \subseteq Ids
           /\ \A st : InState(img, st) \subseteq Ids
           /\ \A st \in States : InState(img, st) \subseteq Queued(img)
BY DEF Image, Queued, InState, States
=============================================================================
