\* Every stream of six bytes in reads of up to three; replies of up to two
\* items, buffers of up to three bytes.
CONSTANTS
    SizeMod = 65536
    MaxBytes = 6
    MaxChunk = 3
    Values <- MCValues
    Gaps <- MCGaps
    Lasts <- MCLasts
    Sizes <- MCSizes
SPECIFICATION AnswersSpec
INVARIANTS TypeOK NoTextLost OneAnswerPerRecord RepliesTypeOK RepliesDecoded
CHECK_DEADLOCK FALSE
