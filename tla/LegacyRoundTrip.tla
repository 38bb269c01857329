-------------------------- MODULE LegacyRoundTrip --------------------------
(***************************************************************************)
(* Compression followed by decompression with the older codec: the passes  *)
(* prediction_and_quantization_3d and prediction_and_quantization_3d_with_ *)
(* border_prediction, and the two that replay them.                        *)
(*                                                                         *)
(* unpredictable_data is allocated for a twentieth of the elements and     *)
(* written unchecked; the model stops, with pc = "overrun", where the      *)
(* program writes behind it.                                               *)
(*                                                                         *)
(* reconstructed is a history variable: what the compressor expects the    *)
(* decompressor to make of each element.                                   *)
(***************************************************************************)
EXTENDS LegacyPass

CONSTANTS
  RegCoeffs,     (* dequantized linear coefficients, 4-tuples              *)
  Unset          (* an element of dec_data that has not been written       *)

VARIABLES enc, dec, dec_data, reconstructed

vars == <<call, data, stream, enc, dec, dec_data, reconstructed>>

Init ==
  /\ call \in Calls /\ data \in Inputs(call)
  /\ stream = EmptyStream
  /\ enc = LegacyStart(call) /\ dec = LegacyStart(call)
  /\ dec_data = [a \in 0 .. call.size.num_elements - 1 |-> Unset]
  /\ reconstructed = dec_data

----------------------------------------------------------------------------
(* The compressor.                                                         *)

\* A block below the threshold takes Lorenzo; sz_blockwise_selection_3d may
\* take either.
SelectPredictor ==
  /\ enc.pc = "block"
  /\ \E sel \in {0} \cup {n \in {1} : \A extent \in {SizeX(call.size, enc.c),
                     SizeY(call.size, enc.c), SizeZ(call.size, enc.c)} :
                       extent >= RegThresholdSize3d} :
     \E p \in IF sel = 1 THEN RegCoeffs ELSE {<<>>} :
       /\ stream' = [stream EXCEPT
            !.indicator = Put(@, enc.indicator_pos, sel),
            !.reg_params = IF sel = 1 THEN Put(@, enc.reg_pos, p) ELSE @]
       /\ enc' = [enc EXCEPT !.pc = "element", !.indicator = sel, !.coeffs = p]
  /\ UNCHANGED reconstructed

\* The code of cur and what it stands for.
Encoded(k, s, cur) ==
  IF s.indicator = 1 THEN LegacyQuantize(cur, LegacyPrediction(k, s), k.capacity, Radius(k))
  ELSE IF k.use_mean /\ Abs(Fl(cur - k.mean)) < Precision THEN [type |-> 1, dec |-> k.mean]
  ELSE LegacyQuantize(cur, LegacyPrediction(k, s), CapacityLorenzo(k), Radius(k))

EncodeElement ==
  /\ enc.pc = "element"
  /\ \E cur \in {data[DataAt(call.size, enc.c)]} :
     \E e \in {Encoded(call, enc, cur)} :
       IF e.type = 0 /\ enc.unpred_pos = Reserve(call.size)
       THEN enc' = [enc EXCEPT !.pc = "overrun"] /\ UNCHANGED <<stream, reconstructed>>
       ELSE /\ stream' = [stream EXCEPT
                 !.type = Put(@, TypeAt(call.size, enc.c), e.type),
                 !.unpred = IF e.type = 0 THEN Put(@, enc.unpred_pos, cur) ELSE @]
            /\ enc' = LegacyElement(call, enc, e.type, e.dec)
            /\ reconstructed' = [reconstructed EXCEPT ![DataAt(call.size, enc.c)] = e.dec]

LeaveBlock ==
  /\ enc.pc = "leave"
  /\ enc' = AfterLegacyBlock(call, enc)
  /\ UNCHANGED <<stream, reconstructed>>

Compress ==
  /\ SelectPredictor \/ EncodeElement \/ LeaveBlock
  /\ UNCHANGED <<call, data, dec, dec_data>>

----------------------------------------------------------------------------
(* The decompressor.                                                       *)

EnterBlock ==
  /\ dec.pc = "block"
  /\ \E sel \in {stream.indicator[dec.indicator_pos]} :
       dec' = [dec EXCEPT !.pc = "element", !.indicator = sel,
                          !.coeffs = IF sel = 1 THEN stream.reg_params[dec.reg_pos] ELSE <<>>]
  /\ UNCHANGED dec_data

Decoded_meanAnywhere(k, s, t, v) ==
  IF t = 0 THEN v
  ELSE IF t = 1 /\ k.use_mean THEN k.mean
  ELSE LegacyRecover(LegacyPrediction(k, s), t, Radius(k))
\* The value of code t, where v is the next value without a code.
Decoded(k, s, t, v) ==
  IF t = 0 THEN v
  ELSE IF t = 1 /\ k.use_mean /\ s.indicator = 0 THEN k.mean
  ELSE LegacyRecover(LegacyPrediction(k, s), t, Radius(k))

DecodeElement ==
  /\ dec.pc = "element"
  /\ \E t \in {stream.type[TypeAt(call.size, dec.c)]} :
     \E v \in {Decoded(call, dec, t, IF t = 0 THEN stream.unpred[dec.unpred_pos] ELSE 0)} :
       /\ dec_data' = [dec_data EXCEPT ![DataAt(call.size, dec.c)] = v]
       /\ dec' = LegacyElement(call, dec, t, v)

ExitBlock ==
  /\ dec.pc = "leave"
  /\ dec' = AfterLegacyBlock(call, dec)
  /\ UNCHANGED dec_data

Decompress ==
  /\ enc.pc = "done"
  /\ EnterBlock \/ DecodeElement \/ ExitBlock
  /\ UNCHANGED <<call, data, stream, enc, reconstructed>>

Finished ==
  /\ enc.pc = "overrun" \/ dec.pc = "done"
  /\ UNCHANGED vars

Next == Compress \/ Decompress \/ Finished

Spec == Init /\ [][Next]_vars /\ WF_vars(Compress \/ Decompress)

----------------------------------------------------------------------------
\* The decompressor makes of every element exactly what the compressor went on
\* with, in either mode, although nothing in the stream marks where a block or
\* its values without a code begin; in the end it has used up what was written.
Lockstep ==
  /\ \A a \in DOMAIN dec_data :
       dec_data[a] # Unset => dec_data[a] = reconstructed[a]
  /\ dec.pc = "done" => dec = enc

\* Every code is a symbol of the alphabet, however far a prediction is off: the
\* older quantizer gives up before it converts to int.
TypeInAlphabet ==
  \A n \in DOMAIN stream.type : stream.type[n] \in 0 .. call.capacity - 1

\* The stencil of an element of a Lorenzo block finds the elements handed out
\* one step back in each dimension, and zero where there is none: none outside
\* the array, and with block_independant none outside the block, although the
\* buffer still holds what earlier blocks left in it.
PredictsFromNeighbours ==
  dec.pc = "element" /\ dec.indicator = 0 =>
    LET size == call.size
        c    == dec.c
        first == IF call.block_independant
                 THEN <<c.i * size.block_size, c.j * size.block_size, c.k * size.block_size>>
                 ELSE <<0, 0, 0>>
        at(d) == <<c.i * size.block_size + c.ii - d[1], c.j * size.block_size + c.jj - d[2],
                   c.k * size.block_size + c.kk - d[3]>>
        value(p) == IF \A n \in 1..3 : p[n] >= first[n]
                    THEN dec_data[p[1] * size.dim0_offset + p[2] * size.dim1_offset + p[3]]
                    ELSE 0
    IN  \A d \in ({0, 1} \X {0, 1} \X {0, 1}) \ {<<0, 0, 0>>} :
          dec.pred_buffer[BufferAt(call, c) - d[1] * BufferDim0(BufferSize(call), 1)
                            - d[2] * BufferDim1(BufferSize(call), 1) - d[3]] = value(at(d))

\* Either mode is an error-bounded codec.
Codec == INSTANCE ErrorBoundedCodec
           WITH output <- dec_data, Within <- WithinPrecision
ImplementsCodec == Codec!Spec

\* Unless the reserve is overrun, both passes end with a complete output.
OutputCompletes == <>(enc.pc = "overrun" \/ (Codec!Completed /\ dec.pc = "done"))
=============================================================================
