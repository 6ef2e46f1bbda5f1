SPECIFICATION Spec
PROPERTIES
  AlgorithmsKeepTheHeader
  ProgPowIsOfOneEpoch
  DevicesRunWhatWasMeasured
  MinerDoesWhatWasAsked
