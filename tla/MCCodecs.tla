------------------------------ MODULE MCCodecs ------------------------------
(***************************************************************************)
(* What turns data into bytes, shards or hashes and back, on small inputs. *)
(* The codecs share no state, so a behaviour is a behaviour of one.        *)
(***************************************************************************)
EXTENDS Manifest, Erasure, KafkaWire, Encodings, RailFile

VARIABLE coding   \* the component that runs

ThePositions == {[route_id |-> r, stream_id |-> 1, seq |-> 0, epoch |-> 1] : r \in {1, 2}}
ThePayload == <<1, 2, 1, 3, 4>>
AnotherPayload == <<5, 1, 2>>
TheCodecs == {<<1, 1>>, <<2, 1>>, <<2, 2>>, <<3, 2>>}

CodingInit ==
    /\ coding \in {"manifest", "chunks", "erasure", "wire", "encodings", "rail"}
    /\ ManifestInit /\ ChunkInit /\ WireInit
    /\ ErasureInit /\ (coding # "erasure" => codec = <<1, 1>>)
    /\ RailInit /\ (coding # "rail" => \A l \in Locators : environment[l] = "unset")
    /\ EncodingInit /\ (coding # "encodings" => given = [as |-> "varint", in |-> <<0>>])

CodingNext ==
    /\ UNCHANGED coding
    /\ \/ /\ UNCHANGED <<erasureVars, wireVars, encodingVars, railVars>>
          /\ \/ coding = "manifest" /\ ManifestNext /\ UNCHANGED slots
             \/ coding = "chunks" /\ ChunkNext /\ UNCHANGED manifestVars
       \/ /\ UNCHANGED <<manifestVars, slots>>
          /\ \/ coding = "erasure" /\ ErasureNext /\ UNCHANGED <<wireVars, encodingVars, railVars>>
             \/ coding = "wire" /\ WireNext /\ UNCHANGED <<erasureVars, encodingVars, railVars>>
             \/ coding = "encodings" /\ EncodingNext /\ UNCHANGED <<erasureVars, wireVars, railVars>>
             \/ coding = "rail" /\ RailNext /\ UNCHANGED <<erasureVars, wireVars, encodingVars>>
=============================================================================
