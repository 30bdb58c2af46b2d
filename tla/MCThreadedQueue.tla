--------------------------- MODULE MCThreadedQueue ---------------------------
(* Small instances of ThreadedQueue for TLC, and the pipeline it implements. *)
EXTENDS ThreadedQueue

Pipeline == INSTANCE DeliveryPipeline
            WITH Message <- 1..MaxMsg, MaxBatch <- bufferSize_,
                 open <- (worker # "none")

\* The queue with its threads, condition variables and flags implements the
\* pipeline: batches settle in order and share a fate, and messages are thrown
\* away only after the worker has been joined.
ImplementsPipeline == Pipeline!PipeSpec
=============================================================================
