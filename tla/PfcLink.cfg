CONSTANTS
  Port = {1, 2}
  Sizes = {1}
  BufferSize = 11
  Reserve = 0
  ResumeOffset = 1
  Headroom <- LinkHeadrooms
  Alpha <- LinkAlphas
  Wrap = 65536
  MaxFrames = 1
  Link = 1
  Delay = 2
  Ahead = 1
SPECIFICATION FairLinkSpec
INVARIANT NoDrop
PROPERTY Resumes
