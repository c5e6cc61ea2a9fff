\* All replies of up to three paragraphs around a limit of four characters.
SPECIFICATION ReplySpec
CONSTANTS
    Answers <- SmallAnswers
    ChunkMax = 4
    TelegramLimit = 5
    MaxFailures = 1
INVARIANTS
    ReplyArrivesWhole
    ParagraphsStayWhole
