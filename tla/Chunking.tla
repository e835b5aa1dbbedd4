------------------------------ MODULE Chunking ------------------------------
(***************************************************************************)
(* How a range is cut into chunks: get_chunk_size and get_iter_chunk_size  *)
(* (src/include/poolstl/internal/utils.hpp), and the loop every            *)
(* parallel_chunk_for_* runs over them (ttp_impl.hpp, thread_impl.hpp).    *)
(***************************************************************************)
EXTENDS Integers

\* Mutant of ChunkSize: the rest of the division is forgotten.
RoundedDown(num_steps, num_threads) == num_steps \div num_threads

\* num_steps divided by num_threads, rounded up.
ChunkSize(num_steps, num_threads) ==
    (num_steps \div num_threads) + (IF num_steps % num_threads > 0 THEN 1 ELSE 0)

\* Mutant of IterChunkSize: every chunk is a whole one.
WholeChunk(iter, last, chunk_size) == chunk_size

\* What is left of the range may be less than a chunk.
IterChunkSize(iter, last, chunk_size) ==
    IF chunk_size < last - iter THEN chunk_size ELSE last - iter

\* loop_end of the iteration that starts at iter.
LoopEnd(iter, last, chunk_size) == iter + IterChunkSize(iter, last, chunk_size)
=============================================================================
